---------------------------- MODULE Spec2Model ----------------------------
(***************************************************************************)
(* The ICS choreography of onomy_tests: three role processes (the provider *)
(* chain runner "onomyd", the consumer chain runner "consumer"/"marketd"   *)
(* and the relayer runner "hermes") driven by container_runner, exchanging *)
(* typed messages over two NetMessenger links.                             *)
(*                                                                         *)
(* Two scenarios are modelled: "current" is tests/src/bin/ics_basic.rs and *)
(* "legacy" is src/bin/ics_basic.rs.  Each runner is a straight-line async *)
(* function whose every statement ends in `?`; it is transcribed as a      *)
(* table of steps, one per statement, and executed by the actions below.   *)
(***************************************************************************)
EXTENDS Integers, Sequences, FiniteSets, TLC

(***************************************************************************)
(* Bounds of the model.                                                    *)
(***************************************************************************)
\* attempts of a bounded retry (the value given to STD_TRIES)
StdTries == 2
\* the global TIMEOUT, in clock ticks
TimeoutTicks == 2
\* how far above its target a polled height may be observed
MaxOvershoot == 1

\* the clock stops one tick after the deadline of the harness
MaxTime == TimeoutTicks + 1

Provider == "onomyd"
Consumer == "consumer"
Relayer  == "hermes"
Roles == {Relayer, Provider, Consumer}

\* the roles that call NetMessenger::listen_single_connect
Listeners == {Relayer, Consumer}

\* the directed halves of the two links (onomyd connects to both listeners)
Links == {<<Provider, Relayer>>, <<Relayer, Provider>>,
          <<Provider, Consumer>>, <<Consumer, Provider>>}

(***************************************************************************)
(* Steps.  op is the kind of statement, lbl names it, peer/ty/what are the *)
(* messenger, the type parameter and the value of a send or recv, arg is   *)
(* the number a wait or a sleep is given.                                  *)
(***************************************************************************)
Cfg(l)     == [op |-> "cfg",    lbl |-> l, peer |-> "-", ty |-> "-", what |-> "-", arg |-> 0]
Drv(l)     == [op |-> "drv",    lbl |-> l, peer |-> "-", ty |-> "-", what |-> "-", arg |-> 0]
Query(l, q) == [op |-> "query", lbl |-> l, peer |-> "-", ty |-> "-", what |-> q, arg |-> 0]
Check(l, e) == [op |-> "assert", lbl |-> l, peer |-> "-", ty |-> "-", what |-> e, arg |-> 0]
Start(l)   == [op |-> "start",  lbl |-> l, peer |-> "-", ty |-> "-", what |-> "-", arg |-> 0]
Stop(l)    == [op |-> "stop",   lbl |-> l, peer |-> "-", ty |-> "-", what |-> "-", arg |-> 0]
Listen(l)  == [op |-> "listen", lbl |-> l, peer |-> Provider, ty |-> "-", what |-> "-", arg |-> TimeoutTicks]
Connect(l, p) == [op |-> "connect", lbl |-> l, peer |-> p, ty |-> "-", what |-> "-", arg |-> StdTries]
Send(l, p, t, w) == [op |-> "send", lbl |-> l, peer |-> p, ty |-> t, what |-> w, arg |-> 0]
Recv(l, p, t, w) == [op |-> "recv", lbl |-> l, peer |-> p, ty |-> t, what |-> w, arg |-> 0]
WaitHeight(l, h) == [op |-> "wait_height", lbl |-> l, peer |-> "-", ty |-> "-", what |-> "-", arg |-> h]
WaitBlocks(l, n) == [op |-> "wait_blocks", lbl |-> l, peer |-> "-", ty |-> "-", what |-> "-", arg |-> n]
Sleep(l, d) == [op |-> "sleep", lbl |-> l, peer |-> "-", ty |-> "-", what |-> "-", arg |-> d]

(***************************************************************************)
(* tests/src/bin/ics_basic.rs: hermes_runner                               *)
(***************************************************************************)
hermes_keys ==
  << Cfg("hermes_home"),
     Listen("listen_single_connect"),
     Recv("recv_mnemonic", Provider, "String", "mnemonic"),
     Drv("write_mnemonic"),
     Drv("keys_add_onomy"),
     Drv("keys_add_consumer") >>

hermes_establish_RecvString ==
  << Recv("recv_proceed", Provider, "String", "proceed"),
     Drv("hermes_setup_pair"),
     Start("hermes_start_bootstrap"),
     Drv("hermes_check_acks"),
     Send("send_ibc_pair", Provider, "IbcPair", "ibc_pair") >>

hermes_establish_NoProceed ==
  << Drv("hermes_setup_pair"),
     Recv("recv_proceed", Provider, "unit", "proceed"),
     Start("hermes_start_bootstrap"),
     Drv("hermes_check_acks"),
     Send("send_ibc_pair", Provider, "IbcPair", "ibc_pair") >>

hermes_establish ==
  << Recv("recv_proceed", Provider, "unit", "proceed"),
     Drv("hermes_setup_pair"),
     Start("hermes_start_bootstrap"),
     Drv("hermes_check_acks"),
     Send("send_ibc_pair", Provider, "IbcPair", "ibc_pair") >>

hermes_regas_NoRestart ==
  << Recv("recv_ibc_nom", Provider, "String", "ibc_nom"),
     Stop("terminate_bootstrap"),
     Drv("hermes_set_gas_price_denom"),
     Send("send_restarted", Provider, "unit", "restarted") >>

hermes_regas_ReplyFirst ==
  << Recv("recv_ibc_nom", Provider, "String", "ibc_nom"),
     Send("send_restarted", Provider, "unit", "restarted"),
     Stop("terminate_bootstrap"),
     Drv("hermes_set_gas_price_denom"),
     Start("hermes_start") >>

hermes_regas ==
  << Recv("recv_ibc_nom", Provider, "String", "ibc_nom"),
     Stop("terminate_bootstrap"),
     Drv("hermes_set_gas_price_denom"),
     Start("hermes_start"),
     Send("send_restarted", Provider, "unit", "restarted") >>

hermes_shutdown_NoWait ==
  << Stop("terminate") >>

hermes_shutdown ==
  << Recv("recv_terminate", Provider, "unit", "terminate"),
     Stop("terminate") >>

hermes_runner == hermes_keys \o hermes_establish \o hermes_regas \o hermes_shutdown

(***************************************************************************)
(* tests/src/bin/ics_basic.rs: onomyd_runner                               *)
(***************************************************************************)
onomyd_connect_SetupFirst ==
  << Cfg("daemon_home"),
     Drv("onomyd_setup"),
     Connect("connect_hermes", Relayer),
     Connect("connect_consumer", Consumer) >>

onomyd_connect_Reconnect ==
  << Cfg("daemon_home"),
     Connect("connect_hermes", Relayer),
     Connect("connect_consumer", Consumer),
     Connect("reconnect_hermes", Relayer) >>

onomyd_connect ==
  << Cfg("daemon_home"),
     Connect("connect_hermes", Relayer),
     Connect("connect_consumer", Consumer) >>

onomyd_secrets ==
  << Drv("onomyd_setup"),
     Send("send_mnemonic", Relayer, "String", "mnemonic"),
     Drv("cosmovisor_get_addr"),
     Sleep("sleep_zero", 0),
     Start("cosmovisor_start"),
     Drv("cosmovisor_add_consumer") >>

onomyd_bootstrap ==
  << Send("send_ccvconsumer_state", Consumer, "String", "ccvconsumer_state"),
     Drv("read_node_key"),
     Send("send_node_key", Consumer, "String", "node_key"),
     Drv("read_priv_validator_key"),
     Send("send_priv_validator_key", Consumer, "String", "priv_validator_key") >>

onomyd_relay_ForwardFirst ==
  << Recv("recv_ready", Consumer, "unit", "ready"),
     Send("send_proceed", Relayer, "unit", "proceed"),
     Recv("recv_ibc_pair", Relayer, "IbcPair", "ibc_pair"),
     Send("send_ibc_pair", Consumer, "IbcPair", "ibc_pair"),
     Drv("cosmovisor_ibc_transfer"),
     WaitBlocks("wait_for_num_blocks", 4) >>

onomyd_relay_TransferFirst ==
  << Recv("recv_ready", Consumer, "unit", "ready"),
     Send("send_proceed", Relayer, "unit", "proceed"),
     Drv("cosmovisor_ibc_transfer"),
     Recv("recv_ibc_pair", Relayer, "IbcPair", "ibc_pair"),
     WaitBlocks("wait_for_num_blocks", 4),
     Send("send_ibc_pair", Consumer, "IbcPair", "ibc_pair") >>

onomyd_relay ==
  << Recv("recv_ready", Consumer, "unit", "ready"),
     Send("send_proceed", Relayer, "unit", "proceed"),
     Recv("recv_ibc_pair", Relayer, "IbcPair", "ibc_pair"),
     Drv("cosmovisor_ibc_transfer"),
     WaitBlocks("wait_for_num_blocks", 4),
     Send("send_ibc_pair", Consumer, "IbcPair", "ibc_pair") >>

onomyd_regas_ForwardFirst ==
  << Send("send_ibc_nom", Relayer, "String", "ibc_nom"),
     Recv("recv_ibc_nom", Consumer, "String", "ibc_nom"),
     Recv("recv_restarted", Relayer, "unit", "restarted"),
     Send("send_restarted", Consumer, "unit", "restarted") >>

onomyd_regas ==
  << Recv("recv_ibc_nom", Consumer, "String", "ibc_nom"),
     Send("send_ibc_nom", Relayer, "String", "ibc_nom"),
     Recv("recv_restarted", Relayer, "unit", "restarted"),
     Send("send_restarted", Consumer, "unit", "restarted") >>

onomyd_shutdown_SignalFirst ==
  << Recv("recv_round_trip", Consumer, "unit", "round_trip"),
     Send("send_terminate_hermes", Relayer, "unit", "terminate"),
     Send("send_terminate_consumer", Consumer, "unit", "terminate"),
     Query("cosmovisor_get_balances", "anom_of_test_addr"),
     Check("assert_anom_5000", "eq_5000"),
     Stop("terminate"),
     Drv("export"),
     Drv("write_export") >>

onomyd_shutdown_StopFirst ==
  << Stop("terminate"),
     Recv("recv_round_trip", Consumer, "unit", "round_trip"),
     Query("cosmovisor_get_balances", "anom_of_test_addr"),
     Check("assert_anom_5000", "eq_5000"),
     Send("send_terminate_hermes", Relayer, "unit", "terminate"),
     Send("send_terminate_consumer", Consumer, "unit", "terminate"),
     Drv("export"),
     Drv("write_export") >>

onomyd_shutdown ==
  << Recv("recv_round_trip", Consumer, "unit", "round_trip"),
     Query("cosmovisor_get_balances", "anom_of_test_addr"),
     Check("assert_anom_5000", "eq_5000"),
     Send("send_terminate_hermes", Relayer, "unit", "terminate"),
     Send("send_terminate_consumer", Consumer, "unit", "terminate"),
     Stop("terminate"),
     Drv("export"),
     Drv("write_export") >>

onomyd_runner ==
  onomyd_connect \o onomyd_secrets \o onomyd_bootstrap \o onomyd_relay
    \o onomyd_regas \o onomyd_shutdown

(***************************************************************************)
(* tests/src/bin/ics_basic.rs: consumer                                    *)
(***************************************************************************)
consumer_bootstrap_NoReady ==
  << Cfg("daemon_home"),
     Listen("listen_single_connect"),
     Recv("recv_ccvconsumer_state", Provider, "String", "ccvconsumer_state"),
     Drv("marketd_setup"),
     Drv("set_minimum_gas_price_anative"),
     Recv("recv_node_key", Provider, "String", "node_key"),
     Drv("write_node_key"),
     Recv("recv_priv_validator_key", Provider, "String", "priv_validator_key"),
     Drv("write_priv_validator_key"),
     Start("cosmovisor_start_bootstrap"),
     Drv("cosmovisor_get_addr") >>

consumer_bootstrap_EarlyStart ==
  << Cfg("daemon_home"),
     Listen("listen_single_connect"),
     Recv("recv_ccvconsumer_state", Provider, "String", "ccvconsumer_state"),
     Drv("marketd_setup"),
     Drv("set_minimum_gas_price_anative"),
     Recv("recv_node_key", Provider, "String", "node_key"),
     Drv("write_node_key"),
     Start("cosmovisor_start_bootstrap"),
     Recv("recv_priv_validator_key", Provider, "String", "priv_validator_key"),
     Drv("write_priv_validator_key"),
     Drv("cosmovisor_get_addr"),
     Send("send_ready", Provider, "unit", "ready") >>

consumer_bootstrap ==
  << Cfg("daemon_home"),
     Listen("listen_single_connect"),
     Recv("recv_ccvconsumer_state", Provider, "String", "ccvconsumer_state"),
     Drv("marketd_setup"),
     Drv("set_minimum_gas_price_anative"),
     Recv("recv_node_key", Provider, "String", "node_key"),
     Drv("write_node_key"),
     Recv("recv_priv_validator_key", Provider, "String", "priv_validator_key"),
     Drv("write_priv_validator_key"),
     Start("cosmovisor_start_bootstrap"),
     Drv("cosmovisor_get_addr"),
     Send("send_ready", Provider, "unit", "ready") >>

consumer_validate_NoBalanceCheck ==
  << Recv("recv_ibc_pair", Provider, "IbcPair", "ibc_pair"),
     Query("get_ibc_denom", "ibc_denom"),
     Check("assert_ibc_nom", "eq_ONOMY_IBC_NOM"),
     Query("cosmovisor_get_balances", "ibc_nom_of_addr") >>

consumer_validate ==
  << Recv("recv_ibc_pair", Provider, "IbcPair", "ibc_pair"),
     Query("get_ibc_denom", "ibc_denom"),
     Check("assert_ibc_nom", "eq_ONOMY_IBC_NOM"),
     Query("cosmovisor_get_balances", "ibc_nom_of_addr"),
     Check("assert_contains_ibc_nom", "contains_key") >>

consumer_regas_SendFirst ==
  << Send("send_ibc_nom", Provider, "String", "ibc_nom"),
     Stop("terminate_bootstrap"),
     Drv("set_minimum_gas_price_ibc_nom"),
     Start("cosmovisor_start"),
     Recv("recv_restarted", Provider, "unit", "restarted") >>

consumer_regas_NoStop ==
  << Drv("set_minimum_gas_price_ibc_nom"),
     Start("cosmovisor_start"),
     Send("send_ibc_nom", Provider, "String", "ibc_nom"),
     Recv("recv_restarted", Provider, "unit", "restarted") >>

consumer_regas ==
  << Stop("terminate_bootstrap"),
     Drv("set_minimum_gas_price_ibc_nom"),
     Start("cosmovisor_start"),
     Send("send_ibc_nom", Provider, "String", "ibc_nom"),
     Recv("recv_restarted", Provider, "unit", "restarted") >>

consumer_roundtrip ==
  << Drv("cosmovisor_bank_send"),
     Query("cosmovisor_get_balances_dst", "ibc_nom_of_dst_addr"),
     Check("assert_dst_5000", "eq_5000"),
     Drv("cosmovisor_ibc_transfer"),
     WaitBlocks("wait_for_num_blocks", 4),
     Send("send_round_trip", Provider, "unit", "round_trip") >>

consumer_shutdown_ExportFirst ==
  << Recv("recv_terminate", Provider, "unit", "terminate"),
     Drv("export"),
     Drv("write_export"),
     Stop("terminate") >>

consumer_shutdown ==
  << Recv("recv_terminate", Provider, "unit", "terminate"),
     Stop("terminate"),
     Drv("export"),
     Drv("write_export") >>

consumer ==
  consumer_bootstrap \o consumer_validate \o consumer_regas
    \o consumer_roundtrip \o consumer_shutdown

(***************************************************************************)
(* src/bin/ics_basic.rs: hermes_runner                                     *)
(***************************************************************************)
legacy_hermes_keys ==
  << Listen("listen_single_connect"),
     Recv("recv_mnemonic", Provider, "String", "mnemonic"),
     Drv("write_mnemonic"),
     Drv("keys_add_onomy"),
     Drv("keys_add_market") >>

legacy_hermes_establish_ReportEarly ==
  << Recv("recv_proceed", Provider, "unit", "proceed"),
     Drv("create_connection_pair"),
     Drv("create_channel_pair_transfer"),
     Drv("create_channel_pair_ics"),
     Start("hermes_start"),
     Sleep("sleep_5s", 0),
     Drv("query_packet_acks_onomy_transfer"),
     Drv("query_packet_acks_market_transfer"),
     Drv("query_packet_acks_onomy_provider"),
     Send("send_connected", Provider, "unit", "connected"),
     Drv("query_packet_acks_market_consumer") >>

legacy_hermes_establish ==
  << Recv("recv_proceed", Provider, "unit", "proceed"),
     Drv("create_connection_pair"),
     Drv("create_channel_pair_transfer"),
     Drv("create_channel_pair_ics"),
     Start("hermes_start"),
     Sleep("sleep_5s", 0),
     Drv("query_packet_acks_onomy_transfer"),
     Drv("query_packet_acks_market_transfer"),
     Drv("query_packet_acks_onomy_provider"),
     Drv("query_packet_acks_market_consumer"),
     Send("send_connected", Provider, "unit", "connected") >>

legacy_hermes_shutdown ==
  << Sleep("sleep_TIMEOUT", TimeoutTicks),
     Stop("terminate") >>

legacy_hermes_runner ==
  legacy_hermes_keys \o legacy_hermes_establish \o legacy_hermes_shutdown

(***************************************************************************)
(* src/bin/ics_basic.rs: onomyd_runner                                     *)
(***************************************************************************)
legacy_onomyd_connect ==
  << Connect("connect_hermes", Relayer),
     Connect("connect_marketd", Consumer) >>

legacy_onomyd_governance_GenesisFirst ==
  << Drv("onomyd_setup"),
     Start("cosmovisor_start"),
     Drv("write_proposal_file"),
     Drv("submit_proposal_consumer_addition"),
     Drv("gov_vote_1_yes"),
     Drv("query_tendermint_validator_set"),
     Drv("query_consumer_genesis"),
     Drv("assign_consensus_key"),
     WaitHeight("wait_for_height", 5) >>

legacy_onomyd_governance_Height4 ==
  << Drv("onomyd_setup"),
     Start("cosmovisor_start"),
     Drv("write_proposal_file"),
     Drv("submit_proposal_consumer_addition"),
     Drv("gov_vote_1_yes"),
     Drv("query_tendermint_validator_set"),
     Drv("assign_consensus_key"),
     WaitHeight("wait_for_height", 4),
     Drv("query_consumer_genesis") >>

legacy_onomyd_governance ==
  << Drv("onomyd_setup"),
     Start("cosmovisor_start"),
     Drv("write_proposal_file"),
     Drv("submit_proposal_consumer_addition"),
     Drv("gov_vote_1_yes"),
     Drv("query_tendermint_validator_set"),
     Drv("assign_consensus_key"),
     WaitHeight("wait_for_height", 5),
     Drv("query_consumer_genesis") >>

legacy_onomyd_forward_MnemonicLast ==
  << Send("send_ccvconsumer_state", Consumer, "String", "ccvconsumer_state"),
     Drv("read_genesis"),
     Send("send_accounts", Consumer, "String", "accounts"),
     Send("send_bank", Consumer, "String", "bank"),
     Drv("read_node_key"),
     Send("send_node_key", Consumer, "String", "node_key"),
     Drv("read_priv_validator_key"),
     Send("send_priv_validator_key", Consumer, "String", "priv_validator_key"),
     Send("send_mnemonic", Relayer, "String", "mnemonic") >>

legacy_onomyd_forward ==
  << Send("send_mnemonic", Relayer, "String", "mnemonic"),
     Send("send_ccvconsumer_state", Consumer, "String", "ccvconsumer_state"),
     Drv("read_genesis"),
     Send("send_accounts", Consumer, "String", "accounts"),
     Send("send_bank", Consumer, "String", "bank"),
     Drv("read_node_key"),
     Send("send_node_key", Consumer, "String", "node_key"),
     Drv("read_priv_validator_key"),
     Send("send_priv_validator_key", Consumer, "String", "priv_validator_key") >>

legacy_onomyd_handshake ==
  << Recv("recv_ready", Consumer, "unit", "ready"),
     Send("send_proceed", Relayer, "unit", "proceed"),
     Recv("recv_connected", Relayer, "unit", "connected") >>

legacy_onomyd_shutdown ==
  << Sleep("sleep_TIMEOUT", TimeoutTicks),
     Stop("terminate") >>

legacy_onomyd_runner ==
  legacy_onomyd_connect \o legacy_onomyd_governance \o legacy_onomyd_forward
    \o legacy_onomyd_handshake \o legacy_onomyd_shutdown

(***************************************************************************)
(* src/bin/ics_basic.rs: marketd_runner                                    *)
(***************************************************************************)
marketd_init ==
  << Listen("listen_single_connect"),
     Drv("config_chain_id"),
     Drv("config_keyring_backend"),
     Drv("init_overwrite") >>

marketd_genesis ==
  << Recv("recv_ccvconsumer_state", Provider, "String", "ccvconsumer_state"),
     Drv("parse_ccvconsumer_state"),
     Recv("recv_accounts", Provider, "String", "accounts"),
     Drv("parse_accounts"),
     Recv("recv_bank", Provider, "String", "bank"),
     Drv("parse_bank"),
     Drv("read_genesis"),
     Drv("write_genesis"),
     Drv("write_logs_genesis"),
     Recv("recv_node_key", Provider, "String", "node_key"),
     Drv("write_node_key"),
     Recv("recv_priv_validator_key", Provider, "String", "priv_validator_key"),
     Drv("write_priv_validator_key") >>

marketd_start ==
  << Start("cosmovisor_start"),
     Send("send_ready", Provider, "unit", "ready") >>

marketd_shutdown_NoSleep ==
  << Stop("terminate") >>

marketd_shutdown ==
  << Sleep("sleep_TIMEOUT", TimeoutTicks),
     Stop("terminate") >>

marketd_runner ==
  marketd_init \o marketd_genesis \o marketd_start \o marketd_shutdown

(***************************************************************************)
(* main: the runner a process started with an entry name executes.         *)
(***************************************************************************)
Prog(s, r) ==
  IF s = "current"
  THEN CASE r = Provider -> onomyd_runner
         [] r = Consumer -> consumer
         [] r = Relayer  -> hermes_runner
  ELSE CASE r = Provider -> legacy_onomyd_runner
         [] r = Consumer -> marketd_runner
         [] r = Relayer  -> legacy_hermes_runner


(***************************************************************************)
(* State.                                                                  *)
(***************************************************************************)
VARIABLES
  scenario,   \* "current" (tests/src/bin/ics_basic.rs) or "legacy" (src/bin/ics_basic.rs)
  harness,    \* container_runner: "build", "run", "wait", "passed", "failed"
              \* (under MainSpec also "main", before the dispatch, and "role")
  harnessErr, \* why container_runner returned Err: "none", "Error", "TimeoutError"
  now,        \* clock ticks since run_all
  status,     \* per role process: "idle", "running", "done", "failed", "killed"
  err,        \* per role: kind of the error it exited with
  pc,         \* per role: index of the next statement of its runner
  chan,       \* per directed link: the messages sent and not yet received
  got,        \* per role: the values it has received, in order
  link,       \* per listener: "closed", "listening", "open"
  daemon,     \* per role: its chain daemon / relaying process is running
  starts,     \* per role: daemons it has spawned
  stops,      \* per role: daemons it has terminated itself
  tries,      \* per role: failed attempts of the bounded retry in progress
  wake,       \* per role: the deadline of its timed wait in progress, if any (a set)
  height,     \* per role: last block height observed on its chain
  target,     \* per role: the height its wait_for_num_blocks awaits, if any (a set)
  seen,       \* per role: what its last query of a chain returned
  disk,       \* the consumer's genesis file and the fragments it is patched with
              \* (followed under PatchSpec only; empty otherwise)
  entry       \* the entry name the top-level process was started with, if any (a set)

vars == << scenario, harness, harnessErr, now, status, err, pc, chan, got, link,
           daemon, starts, stops, tries, wake, height, target, seen, disk, entry >>

InitProgram ==
  /\ harness = "build"
  /\ harnessErr = "none"
  /\ now = 0
  /\ status = [r \in Roles |-> "idle"]
  /\ err = [r \in Roles |-> "none"]
  /\ pc = [r \in Roles |-> 1]
  /\ chan = [l \in Links |-> << >>]
  /\ got = [r \in Roles |-> << >>]
  /\ link = [r \in Listeners |-> "closed"]
  /\ daemon = [r \in Roles |-> FALSE]
  /\ starts = [r \in Roles |-> 0]
  /\ stops = [r \in Roles |-> 0]
  /\ tries = [r \in Roles |-> 0]
  /\ wake = [r \in Roles |-> {}]
  /\ height = [r \in Roles |-> 0]
  /\ target = [r \in Roles |-> {}]
  /\ seen = [r \in Roles |-> "-"]

Init ==
  /\ scenario \in {"current", "legacy"}
  /\ InitProgram
  /\ disk = << >>
  /\ entry = {}

(***************************************************************************)
(* Helpers of the step actions.                                            *)
(***************************************************************************)
Code(r) == Prog(scenario, r)
Returned(r) == pc[r] > Len(Code(r))
Cur(r) == Code(r)[pc[r]]
At(r, ops) == status[r] = "running" /\ ~Returned(r) /\ Cur(r).op \in ops

\* the position of the first statement labelled l in each runner
FirstAt ==
  [s \in {"current", "legacy"} |-> [r \in Roles |->
     LET code == Prog(s, r)
     IN  [l \in {code[i].lbl : i \in 1..Len(code)} |->
            CHOOSE i \in 1..Len(code) :
              code[i].lbl = l /\ \A j \in 1..(i - 1) : code[j].lbl # l]]]

\* statement l of r's runner has been executed successfully: r is past the
\* first statement with that label
Did(r, l) ==
  LET first == FirstAt[scenario][r]
  IN  l \in DOMAIN first /\ first[l] < pc[r]
\* r is at statement l
AtLbl(r, l) == ~Returned(r) /\ Cur(r).lbl = l

RunnerVars == << scenario, entry, harness, harnessErr, now >>

\* `?` on Ok: go on with the next statement
Advance(r) ==
  /\ pc' = [pc EXCEPT ![r] = @ + 1]
  /\ UNCHANGED << status, err >>

\* `?` on Err (or a panic): the process exits with the error, and its
\* container, with the daemon in it, stops
Exit(r, e) ==
  /\ status' = [status EXCEPT ![r] = "failed"]
  /\ err' = [err EXCEPT ![r] = e]
  /\ daemon' = [daemon EXCEPT ![r] = FALSE]
  /\ UNCHANGED pc


(***************************************************************************)
(* container_runner                                                        *)
(***************************************************************************)
\* the first argument of wait_with_timeout_all
terminate_on_failure_Off == FALSE

terminate_on_failure == TRUE

\* the commands before run_all succeed (builds, copies, hermes config)
ContainerRunnerPrepare ==
  /\ harness = "build"
  /\ harness' = "run"
  /\ UNCHANGED << scenario, entry, harnessErr, now, status, err, pc, chan, got, link,
                  daemon, starts, stops, tries, wake, height, target, seen, disk >>

\* one of them, or run_all, fails: `?` returns the error, no container runs
ContainerRunnerError ==
  /\ harness \in {"build", "run"}
  /\ harness' = "failed"
  /\ harnessErr' = "Error"
  /\ UNCHANGED << scenario, entry, now, status, err, pc, chan, got, link,
                  daemon, starts, stops, tries, wake, height, target, seen, disk >>

\* cn.run_all(true): every container starts its entrypoint with its entry name
RunAll ==
  /\ harness = "run"
  /\ harness' = "wait"
  /\ status' = [r \in Roles |-> "running"]
  /\ UNCHANGED << scenario, entry, harnessErr, now, err, pc, chan, got, link,
                  daemon, starts, stops, tries, wake, height, target, seen, disk >>

\* ContainerNetwork::terminate_all: every container still running is stopped,
\* and the daemons inside with it
TerminateAll ==
  /\ status' = [r \in Roles |-> IF status[r] = "running" THEN "killed" ELSE status[r]]
  /\ daemon' = [r \in Roles |-> FALSE]

\* wait_with_timeout_all: every container has exited successfully
WaitAllOk ==
  /\ harness = "wait"
  /\ \A r \in Roles : status[r] = "done"
  /\ harness' = "passed"
  /\ UNCHANGED << scenario, entry, harnessErr, now, status, err, pc, chan, got, link,
                  daemon, starts, stops, tries, wake, height, target, seen, disk >>

\* wait_with_timeout_all: a container has exited unsuccessfully
WaitAllFailure ==
  /\ harness = "wait"
  /\ \E r \in Roles : status[r] = "failed"
  /\ harness' = "failed"
  /\ harnessErr' = "Error"
  /\ IF terminate_on_failure THEN TerminateAll ELSE UNCHANGED << status, daemon >>
  /\ UNCHANGED << scenario, entry, now, err, pc, chan, got, link,
                  starts, stops, tries, wake, height, target, seen, disk >>

\* wait_with_timeout_all: TIMEOUT has elapsed and some container has not exited
WaitAllTimeout ==
  /\ harness = "wait"
  /\ now > TimeoutTicks
  /\ \E r \in Roles : status[r] # "done"
  /\ harness' = "failed"
  /\ harnessErr' = "TimeoutError"
  /\ IF terminate_on_failure THEN TerminateAll ELSE UNCHANGED << status, daemon >>
  /\ UNCHANGED << scenario, entry, now, err, pc, chan, got, link,
                  starts, stops, tries, wake, height, target, seen, disk >>

\* time passes while the harness waits
Tick ==
  /\ harness = "wait"
  /\ now < MaxTime
  /\ now' = now + 1
  /\ UNCHANGED << scenario, entry, harness, harnessErr, status, err, pc, chan, got, link,
                  daemon, starts, stops, tries, wake, height, target, seen, disk >>

(***************************************************************************)
(* The statements of a runner.                                             *)
(***************************************************************************)
\* an argument check, a driver command or a file operation succeeds
DriverOk(r) ==
  /\ At(r, {"cfg", "drv"})
  /\ Advance(r)
  /\ UNCHANGED << RunnerVars, chan, got, link, daemon, starts, stops, tries, wake,
                  height, target, seen, disk >>

\* what a query of a chain can return: the denomination get_ibc_denom derives,
\* the balance entry of a denomination at an address (absent, the amount
\* that was sent there, or another amount)
Outcomes(q) ==
  CASE q = "ibc_denom" -> {"ONOMY_IBC_NOM", "other_denom"}
    [] q = "ibc_nom_of_addr" -> {"absent", "amount_sent", "amount_other"}
    [] q = "ibc_nom_of_dst_addr" -> {"absent", "5000", "amount_other"}
    [] q = "anom_of_test_addr" -> {"absent", "5000", "amount_other"}

\* the values an assertion accepts
Accepts(e) ==
  CASE e = "eq_ONOMY_IBC_NOM" -> {"ONOMY_IBC_NOM"}
    [] e = "contains_key" -> {"amount_sent", "amount_other"}
    [] e = "eq_5000" -> {"5000"}

\* a query of a chain returns a value
QueryOk(r) ==
  /\ At(r, {"query"})
  /\ \E v \in Outcomes(Cur(r).what) : seen' = [seen EXCEPT ![r] = v]
  /\ Advance(r)
  /\ UNCHANGED << RunnerVars, chan, got, link, daemon, starts, stops, tries, wake,
                  height, target, disk >>

\* assert!/assert_eq! on the value just queried holds
CheckOk(r) ==
  /\ At(r, {"assert"})
  /\ seen[r] \in Accepts(Cur(r).what)
  /\ Advance(r)
  /\ UNCHANGED << RunnerVars, chan, got, link, daemon, starts, stops, tries, wake,
                  height, target, seen, disk >>

\* it does not hold: the process panics
CheckFail(r) ==
  /\ At(r, {"assert"})
  /\ seen[r] \notin Accepts(Cur(r).what)
  /\ Exit(r, "Panic")
  /\ UNCHANGED << RunnerVars, chan, got, link, starts, stops, tries, wake,
                  height, target, seen, disk >>

\* the statement fails and the error is dropped: the runner goes on
Fail_Swallowed(r) ==
  /\ At(r, {"cfg", "drv", "query", "start", "stop", "send", "listen",
            "wait_height", "wait_blocks"})
  /\ err' = [err EXCEPT ![r] = "Error"]
  /\ pc' = [pc EXCEPT ![r] = @ + 1]
  /\ UNCHANGED << RunnerVars, status, chan, got, link, daemon, starts, stops, tries,
                  wake, height, target, seen, disk >>

\* the statement fails (Err)
Fail(r) ==
  /\ At(r, {"cfg", "drv", "query", "start", "stop", "send", "listen",
            "wait_height", "wait_blocks"})
  /\ Exit(r, "Error")
  /\ link' = [l \in Listeners |-> IF l = r /\ link[l] = "listening" THEN "closed" ELSE link[l]]
  /\ UNCHANGED << RunnerVars, chan, got, starts, stops, tries, wake, height, target, seen, disk >>

\* cosmovisor_start / hermes_start
StartDaemon(r) ==
  /\ At(r, {"start"})
  /\ daemon' = [daemon EXCEPT ![r] = TRUE]
  /\ starts' = [starts EXCEPT ![r] = @ + 1]
  /\ Advance(r)
  /\ UNCHANGED << RunnerVars, chan, got, link, stops, tries, wake, height, target, seen, disk >>

\* runner.terminate
StopDaemon(r) ==
  /\ At(r, {"stop"})
  /\ daemon' = [daemon EXCEPT ![r] = FALSE]
  /\ stops' = [stops EXCEPT ![r] = @ + 1]
  /\ Advance(r)
  /\ UNCHANGED << RunnerVars, chan, got, link, starts, tries, wake, height, target, seen, disk >>

\* nm.send::<T>(&v)
SendMsg(r) ==
  /\ At(r, {"send"})
  /\ chan' = [chan EXCEPT ![<<r, Cur(r).peer>>] =
                Append(@, [ty |-> Cur(r).ty, what |-> Cur(r).what])]
  /\ Advance(r)
  /\ UNCHANGED << RunnerVars, got, link, daemon, starts, stops, tries, wake, height, target, seen, disk >>

\* nm.recv::<T>(): blocks until a message is there; a message of another
\* type than T does not deserialize
RecvMsg(r) ==
  /\ At(r, {"recv"})
  /\ chan[<<Cur(r).peer, r>>] # << >>
  /\ IF Head(chan[<<Cur(r).peer, r>>]).ty = Cur(r).ty
     THEN /\ chan' = [chan EXCEPT ![<<Cur(r).peer, r>>] = Tail(@)]
          /\ got' = [got EXCEPT ![r] = Append(@, Head(chan[<<Cur(r).peer, r>>]).what)]
          /\ Advance(r)
          /\ UNCHANGED daemon
     ELSE /\ Exit(r, "ProtocolMismatch")
          /\ UNCHANGED << chan, got >>
  /\ UNCHANGED << RunnerVars, link, starts, stops, tries, wake, height, target, seen, disk >>

\* nm.recv::<T>() when the peer process is gone and nothing is left to read
RecvClosed(r) ==
  /\ At(r, {"recv"})
  /\ chan[<<Cur(r).peer, r>>] = << >>
  /\ status[Cur(r).peer] \in {"done", "failed", "killed"}
  /\ Exit(r, "Error")
  /\ UNCHANGED << RunnerVars, chan, got, link, starts, stops, tries, wake, height, target, seen, disk >>

\* listen_single_connect(addr, TIMEOUT): bind, then accept within TIMEOUT
ListenBind(r) ==
  /\ At(r, {"listen"})
  /\ link[r] = "closed"
  /\ wake[r] = {}
  /\ link' = [link EXCEPT ![r] = "listening"]
  /\ wake' = [wake EXCEPT ![r] = {now + Cur(r).arg}]
  /\ UNCHANGED << RunnerVars, status, err, pc, chan, got, daemon, starts, stops,
                  tries, height, target, seen, disk >>

ListenAccept(r) ==
  /\ At(r, {"listen"})
  /\ link[r] = "open"
  /\ wake' = [wake EXCEPT ![r] = {}]
  /\ Advance(r)
  /\ UNCHANGED << RunnerVars, chan, got, link, daemon, starts, stops, tries, height, target, seen, disk >>

ListenTimeout(r) ==
  /\ At(r, {"listen"})
  /\ link[r] = "listening"
  /\ \E d \in wake[r] : now >= d
  /\ link' = [link EXCEPT ![r] = "closed"]
  /\ Exit(r, "TimeoutError")
  /\ UNCHANGED << RunnerVars, chan, got, starts, stops, tries, wake, height, target, seen, disk >>

\* NetMessenger::connect(STD_TRIES, STD_DELAY, addr): an attempt reaches the
\* listener, or is refused and retried, or was the last one
ConnectOk(r) ==
  /\ At(r, {"connect"})
  /\ link[Cur(r).peer] = "listening"
  /\ link' = [link EXCEPT ![Cur(r).peer] = "open"]
  /\ tries' = [tries EXCEPT ![r] = 0]
  /\ Advance(r)
  /\ UNCHANGED << RunnerVars, chan, got, daemon, starts, stops, wake, height, target, seen, disk >>

ConnectRetry(r) ==
  /\ At(r, {"connect"})
  /\ link[Cur(r).peer] # "listening"
  /\ tries[r] + 1 < Cur(r).arg
  /\ tries' = [tries EXCEPT ![r] = @ + 1]
  /\ UNCHANGED << RunnerVars, status, err, pc, chan, got, link, daemon, starts, stops,
                  wake, height, target, seen, disk >>

ConnectFail(r) ==
  /\ At(r, {"connect"})
  /\ link[Cur(r).peer] # "listening"
  /\ tries[r] + 1 >= Cur(r).arg
  /\ tries' = [tries EXCEPT ![r] = 0]
  /\ Exit(r, "TimeoutError")
  /\ UNCHANGED << RunnerVars, chan, got, link, starts, stops, wake, height, target, seen, disk >>


(***************************************************************************)
(* wait_for_height(STD_TRIES, STD_DELAY, h) and wait_for_num_blocks(n): a  *)
(* bounded polling wait.  Each attempt queries the height of the role's    *)
(* own chain, which never decreases.                                       *)
(***************************************************************************)
Target(r) == IF Cur(r).op = "wait_height" THEN {Cur(r).arg} ELSE target[r]

\* wait_for_num_blocks(n) first reads the height and adds n to it
GetHeight(r) ==
  /\ At(r, {"wait_blocks"})
  /\ target[r] = {}
  /\ daemon[r]
  /\ \E h \in height[r]..(height[r] + MaxOvershoot) :
       /\ height' = [height EXCEPT ![r] = h]
       /\ target' = [target EXCEPT ![r] = {h + Cur(r).arg}]
  /\ UNCHANGED << RunnerVars, status, err, pc, chan, got, link, daemon, starts, stops,
                  tries, wake, seen, disk >>

\* an attempt observes a height that meets the target
PollOk(r) ==
  /\ At(r, {"wait_height", "wait_blocks"})
  /\ daemon[r]
  /\ \E t \in Target(r) : \E h \in height[r]..(t + MaxOvershoot) :
       /\ h >= t
       /\ height' = [height EXCEPT ![r] = h]
  /\ tries' = [tries EXCEPT ![r] = 0]
  /\ target' = [target EXCEPT ![r] = {}]
  /\ Advance(r)
  /\ UNCHANGED << RunnerVars, chan, got, link, daemon, starts, stops, wake, seen, disk >>

\* an attempt observes a lower height and another attempt is left
PollRetry(r) ==
  /\ At(r, {"wait_height", "wait_blocks"})
  /\ daemon[r]
  /\ tries[r] + 1 < StdTries
  /\ \E t \in Target(r) : \E h \in height[r]..(t - 1) :
       height' = [height EXCEPT ![r] = h]
  /\ tries' = [tries EXCEPT ![r] = @ + 1]
  /\ UNCHANGED << RunnerVars, status, err, pc, chan, got, link, daemon, starts, stops,
                  wake, target, seen, disk >>

\* the last attempt observes a lower height
PollFail(r) ==
  /\ At(r, {"wait_height", "wait_blocks"})
  /\ daemon[r]
  /\ tries[r] + 1 >= StdTries
  /\ \E t \in Target(r) : \E h \in height[r]..(t - 1) :
       height' = [height EXCEPT ![r] = h]
  /\ tries' = [tries EXCEPT ![r] = @ + 1]
  /\ Exit(r, "TimeoutError")
  /\ UNCHANGED << RunnerVars, chan, got, link, starts, stops, wake, target, seen, disk >>

\* sleep(d): returns once d has elapsed
SleepStart(r) ==
  /\ At(r, {"sleep"})
  /\ wake[r] = {}
  /\ wake' = [wake EXCEPT ![r] = {now + Cur(r).arg}]
  /\ UNCHANGED << RunnerVars, status, err, pc, chan, got, link, daemon, starts, stops,
                  tries, height, target, seen, disk >>

SleepEnd(r) ==
  /\ At(r, {"sleep"})
  /\ \E d \in wake[r] : now >= d
  /\ wake' = [wake EXCEPT ![r] = {}]
  /\ Advance(r)
  /\ UNCHANGED << RunnerVars, chan, got, link, daemon, starts, stops, tries, height, target, seen, disk >>

\* Ok(()): the process exits successfully and its container stops
Return(r) ==
  /\ status[r] = "running"
  /\ Returned(r)
  /\ status' = [status EXCEPT ![r] = "done"]
  /\ daemon' = [daemon EXCEPT ![r] = FALSE]
  /\ UNCHANGED << RunnerVars, err, pc, chan, got, link, starts, stops, tries, wake,
                  height, target, seen, disk >>

(***************************************************************************)
(* Specifications.                                                         *)
(***************************************************************************)
Next ==
  \/ ContainerRunnerPrepare
  \/ ContainerRunnerError
  \/ RunAll
  \/ WaitAllOk
  \/ WaitAllFailure
  \/ WaitAllTimeout
  \/ Tick
  \/ \E r \in Roles :
       \/ DriverOk(r)
       \/ QueryOk(r)
       \/ CheckOk(r)
       \/ CheckFail(r)
       \/ Fail(r)
       \/ StartDaemon(r)
       \/ StopDaemon(r)
       \/ SendMsg(r)
       \/ RecvMsg(r)
       \/ RecvClosed(r)
       \/ ListenBind(r)
       \/ ListenAccept(r)
       \/ ListenTimeout(r)
       \/ ConnectOk(r)
       \/ ConnectRetry(r)
       \/ ConnectFail(r)
       \/ GetHeight(r)
       \/ PollOk(r)
       \/ PollRetry(r)
       \/ PollFail(r)
       \/ SleepStart(r)
       \/ SleepEnd(r)
       \/ Return(r)

Spec == Init /\ [][Next]_vars

\* the values of a query with which the assertion that reads it holds
Expected(q) ==
  CASE q = "ibc_denom" -> Accepts("eq_ONOMY_IBC_NOM")
    [] q = "ibc_nom_of_addr" -> Accepts("contains_key")
    [] q = "ibc_nom_of_dst_addr" -> Accepts("eq_5000")
    [] q = "anom_of_test_addr" -> Accepts("eq_5000")

\* The current scenario when no statement fails (every command succeeds and
\* every query returns a value its assertion accepts), every channel is set
\* up within its bound, the timeout does not expire, and every process that
\* can take a step eventually takes one.
HappyStep(r) ==
  \/ DriverOk(r)
  \/ QueryOk(r) /\ seen'[r] \in Expected(Cur(r).what)
  \/ CheckOk(r)
  \/ StartDaemon(r)
  \/ StopDaemon(r)
  \/ SendMsg(r)
  \/ RecvMsg(r)
  \/ ListenBind(r)
  \/ ListenAccept(r)
  \/ ConnectOk(r)
  \/ ConnectRetry(r)
  \/ GetHeight(r)
  \/ PollOk(r)
  \/ PollRetry(r)
  \/ SleepStart(r)
  \/ SleepEnd(r)
  \/ Return(r)

HarnessStep ==
  \/ ContainerRunnerPrepare
  \/ RunAll
  \/ WaitAllOk

FairNext ==
  \/ HarnessStep
  \/ \E r \in Roles : HappyStep(r)

FairInit == Init /\ scenario = "current"

FairSpec ==
  /\ FairInit
  /\ [][FairNext]_vars
  /\ WF_vars(HarnessStep)
  /\ \A r \in Roles : WF_vars(HappyStep(r))


(***************************************************************************)
(* main: a process of the test binary started with or without an entry     *)
(* name.  The specifications above start at the launcher (no entry name);  *)
(* MainSpec starts one step earlier, at the dispatch on the entry name.    *)
(***************************************************************************)
\* the arms of main's match on the entry name: the runner each name selects
Arms(s) ==
  IF s = "current"
  THEN [e \in {"onomyd", "consumer", "hermes"} |->
          CASE e = "onomyd" -> Provider [] e = "consumer" -> Consumer [] e = "hermes" -> Relayer]
  ELSE [e \in {"onomyd", "marketd", "hermes"} |->
          CASE e = "onomyd" -> Provider [] e = "marketd" -> Consumer [] e = "hermes" -> Relayer]

\* the entry name container_runner gives the container of role r
EntryArg(s, r) ==
  CASE r = Relayer -> "hermes"
    [] r = Provider -> "onomyd"
    [] r = Consumer -> IF s = "current" THEN "consumer" ELSE "marketd"

\* the entry names a process is started with in the model
EntryInputs == {"onomyd", "consumer", "marketd", "hermes", "geth"}

MainInit ==
  /\ scenario \in {"current", "legacy"}
  /\ entry \in {{}} \cup {{e} : e \in EntryInputs}
  /\ harness = "main"
  /\ harnessErr = "none"
  /\ now = 0
  /\ status = [r \in Roles |-> "idle"]
  /\ err = [r \in Roles |-> "none"]
  /\ pc = [r \in Roles |-> 1]
  /\ chan = [l \in Links |-> << >>]
  /\ got = [r \in Roles |-> << >>]
  /\ link = [r \in Listeners |-> "closed"]
  /\ daemon = [r \in Roles |-> FALSE]
  /\ starts = [r \in Roles |-> 0]
  /\ stops = [r \in Roles |-> 0]
  /\ tries = [r \in Roles |-> 0]
  /\ wake = [r \in Roles |-> {}]
  /\ height = [r \in Roles |-> 0]
  /\ target = [r \in Roles |-> {}]
  /\ seen = [r \in Roles |-> "-"]
  /\ disk = << >>

\* main with a name that is not recognized treated as no name
Main_FallThrough ==
  /\ harness = "main"
  /\ IF \E e \in entry : e \in DOMAIN Arms(scenario)
     THEN /\ harness' = "role"
          /\ status' = [r \in Roles |->
                          IF \E e \in entry : Arms(scenario)[e] = r THEN "running" ELSE status[r]]
          /\ UNCHANGED harnessErr
     ELSE /\ harness' = "build"
          /\ UNCHANGED << harnessErr, status >>
  /\ UNCHANGED << scenario, entry, now, err, pc, chan, got, link,
                  daemon, starts, stops, tries, wake, height, target, seen, disk >>

\* main: without an entry name the process goes on as the launcher; with a
\* name of the match it runs that runner; with another name it returns Err
Main ==
  /\ harness = "main"
  /\ IF entry = {}
     THEN /\ harness' = "build"
          /\ UNCHANGED << harnessErr, status >>
     ELSE IF \E e \in entry : e \in DOMAIN Arms(scenario)
     THEN /\ harness' = "role"
          /\ status' = [r \in Roles |->
                          IF \E e \in entry : Arms(scenario)[e] = r THEN "running" ELSE status[r]]
          /\ UNCHANGED harnessErr
     ELSE /\ harness' = "failed"
          /\ harnessErr' = "Error"
          /\ UNCHANGED status
  /\ UNCHANGED << scenario, entry, now, err, pc, chan, got, link,
                  daemon, starts, stops, tries, wake, height, target, seen, disk >>

MainNext ==
  \/ Main
  \/ HarnessStep
  \/ \E r \in Roles : HappyStep(r)

MainSpec == MainInit /\ [][MainNext]_vars


(***************************************************************************)
(* src/bin/ics_basic.rs, marketd_runner: the patch of the genesis file.    *)
(* A JSON object is a function from keys to strings; its text is the       *)
(* sequence of its <<key, string>> members.  The genesis document has the  *)
(* three subtrees the patch overwrites and one, other, that it does not.   *)
(***************************************************************************)
MaxPatches == 2

KeyNames == {"anom", "stake"}
KeyOrder == << "anom", "stake" >>
Strings == {"stake", "uatom"}
Objects == UNION {[K -> Strings] : K \in SUBSET KeyNames \ {{}}}
Subtrees == {"ccvconsumer", "accounts", "bank", "other"}

\* Value::to_string of an object: its members, in the order of their keys
to_string(o) ==
  LET ks == SelectSeq(KeyOrder, LAMBDA k : k \in DOMAIN o)
  IN  [i \in 1..Len(ks) |-> << ks[i], o[ks[i]] >>]

\* serde_json::from_str of the text of an object: of members with the same
\* key the last one is kept
from_str(t) ==
  LET ks == {t[i][1] : i \in 1..Len(t)}
      last(k) == CHOOSE i \in 1..Len(t) :
                   t[i][1] = k /\ \A j \in (i + 1)..Len(t) : t[j][1] # k
  IN  [k \in ks |-> t[last(k)][2]]

\* genesis_s.replace("\"stake\"", "\"anom\""): every string "stake" of
\* the text, key or value, becomes "anom"
ReplaceString(x) == IF x = "stake" THEN "anom" ELSE x
Replace(t) == [i \in 1..Len(t) |-> << ReplaceString(t[i][1]), ReplaceString(t[i][2]) >>]

\* the patch with the substitution made before the overwrite
Patch_ReplaceFirst(file, ccvconsumer_state, accounts, bank) ==
  LET genesis == [x \in Subtrees |-> from_str(Replace(file[x]))]
      patched == [genesis EXCEPT !["ccvconsumer"] = ccvconsumer_state,
                                 !["accounts"] = accounts,
                                 !["bank"] = bank]
  IN  [x \in Subtrees |-> to_string(patched[x])]

\* read the file, parse it, overwrite the three subtrees, print, substitute:
\* the text that is written back
Patch(file, ccvconsumer_state, accounts, bank) ==
  LET genesis == [x \in Subtrees |-> from_str(file[x])]
      patched == [genesis EXCEPT !["ccvconsumer"] = ccvconsumer_state,
                                 !["accounts"] = accounts,
                                 !["bank"] = bank]
  IN  [x \in Subtrees |-> Replace(to_string(patched[x]))]

\* a genesis file as `init` left it, and three fragments
PatchInit ==
  /\ scenario = "legacy"
  /\ InitProgram
  /\ entry = {}
  /\ \E old, other, ccvconsumer_state, accounts, bank \in Objects :
       LET base == [x \in Subtrees |-> IF x = "other" THEN other ELSE old]
           file == [x \in Subtrees |-> to_string(base[x])]
       IN  disk = [base |-> base,
                   ccvconsumer_state |-> ccvconsumer_state,
                   accounts |-> accounts,
                   bank |-> bank,
                   file |-> file,
                   once |-> file,
                   patches |-> 0]

\* the patch is applied to the file
PatchGenesis ==
  /\ disk.patches < MaxPatches
  /\ LET out == Patch(disk.file, disk.ccvconsumer_state, disk.accounts, disk.bank)
     IN  disk' = [disk EXCEPT !.file = out,
                              !.once = IF disk.patches = 0 THEN out ELSE @,
                              !.patches = @ + 1]
  /\ UNCHANGED << scenario, entry, harness, harnessErr, now, status, err, pc, chan, got, link,
                  daemon, starts, stops, tries, wake, height, target, seen >>

PatchSpec == PatchInit /\ [][PatchGenesis]_vars

(***************************************************************************)
(* Properties.                                                             *)
(***************************************************************************)
Types(steps) == [i \in 1..Len(steps) |-> steps[i].ty]
IsSendTo(st, p) == st.op = "send" /\ st.peer = p
IsRecvFrom(st, p) == st.op = "recv" /\ st.peer = p
\* the types a sends to b, and the types a's receives from b expect, in order
SendTypes(s, a, b) == Types(SelectSeq(Prog(s, a), LAMBDA st : IsSendTo(st, b)))
RecvTypes(s, a, b) == Types(SelectSeq(Prog(s, a), LAMBDA st : IsRecvFrom(st, b)))
Range(f) == {f[i] : i \in DOMAIN f}

Inbox(r) == chan[<<Cur(r).peer, r>>]
AllDone == \A r \in Roles : status[r] = "done"

\* C1 (protocol symmetry, current scenario): on both links and in both
\* directions the types sent by one end are, in order, the types the other
\* end's receives expect, all among String, unit and IbcPair; so a role that
\* takes a message from its queue finds the type its receive expects, and
\* no role ever exits on a message of the wrong type.
C1_Types ==
  \A l \in Links :
    /\ SendTypes("current", l[1], l[2]) = RecvTypes("current", l[2], l[1])
    /\ Range(SendTypes("current", l[1], l[2])) \subseteq {"String", "unit", "IbcPair"}

C1_ProtocolSymmetry ==
  scenario = "current" =>
    /\ C1_Types
    /\ \A r \in Roles :
         /\ (At(r, {"recv"}) /\ Inbox(r) # << >>) => Head(Inbox(r)).ty = Cur(r).ty
         /\ err[r] # "ProtocolMismatch"

\* every kind of message has been taken from a queue: the relayer has received
\* its last unit, the consumer the IbcPair, the provider the IbcPair
C1_Witness ==
  /\ scenario = "current"
  /\ Did(Relayer, "recv_terminate")
  /\ Did(Consumer, "recv_ibc_pair")
  /\ Did(Provider, "recv_ibc_pair")

Blocked(r) == At(r, {"recv"}) /\ Inbox(r) = << >>
\* some role has not finished and every role that has not is blocked on a
\* receive with an empty queue
Deadlocked ==
  /\ \E r \in Roles : status[r] = "running"
  /\ \A r \in Roles : status[r] = "running" => Blocked(r)

\* C2 (joint completion, current scenario): when no statement fails, the
\* channels are set up and every process is scheduled fairly, no reachable
\* state is a deadlock and the three roles all eventually exit successfully.
C2_JointCompletion == [](~Deadlocked) /\ <>AllDone

C2_Witness == AllDone /\ harness = "passed" /\ \A l \in Links : chan[l] = << >>

\* a role is at or past its part of the termination exchange
ReachedBarrier(r) ==
  CASE r = Provider -> Did(Provider, "assert_anom_5000")
    [] r = Consumer -> Did(Consumer, "send_round_trip")
    [] r = Relayer  -> Did(Relayer, "send_restarted")

\* C3 as stated: once a role has stopped a chain process, all three roles
\* have reached the done barrier.
C3_Original ==
  scenario = "current" =>
    ((\E r \in {Provider, Consumer} : stops[r] > 0) => \A q \in Roles : ReachedBarrier(q))

\* C3 (amended): once a role has made the final stop of its chain or relay
\* process, all three roles have reached the done barrier; a stop before the
\* barrier is the consumer's or the relayer's stop-and-restart for the gas
\* denomination, never the provider's.
C3_FinalStopAfterBarrier ==
  scenario = "current" =>
    \A r \in Roles :
      /\ Did(r, "terminate") => \A q \in Roles : ReachedBarrier(q)
      /\ (stops[r] > 0 /\ ~Did(r, "terminate")) =>
           (r \in {Consumer, Relayer} /\ Did(r, "terminate_bootstrap") /\ stops[r] = 1)

C3_Witness ==
  /\ scenario = "current"
  /\ Did(Relayer, "terminate")
  /\ AtLbl(Provider, "send_terminate_consumer")
  /\ AtLbl(Consumer, "recv_terminate")

\* C4 (global timeout): role processes run only once the harness waits; when
\* the wait ends by timeout the outcome is failure, no role process is left
\* running and no daemon is left up, whatever step each role had reached;
\* the outcome is passed only if every role exited successfully and the
\* timeout had not fired.
C4_GlobalTimeout ==
  /\ (\E r \in Roles : status[r] # "idle") => harness \in {"wait", "passed", "failed"}
  /\ harnessErr = "TimeoutError" =>
       /\ harness = "failed"
       /\ \A r \in Roles : status[r] \in {"done", "failed", "killed"} /\ ~daemon[r]
  /\ harness = "passed" => (AllDone /\ harnessErr = "none")

\* the timeout fired while all three roles were mid-scenario
C4_Witness ==
  /\ harnessErr = "TimeoutError"
  /\ \A r \in Roles : status[r] = "killed" /\ pc[r] > 3
  /\ starts[Consumer] = 1

\* the harness timed out and the relayer had not sent the IbcPair
IbcPairNeverSent ==
  /\ scenario = "current"
  /\ harnessErr = "TimeoutError"
  /\ ~Did(Relayer, "send_ibc_pair")

\* C5 as stated: the provider's receive of the IbcPair fails with a
\* TimeoutError, and the harness terminates everything and reports failure.
C5_Original ==
  (IbcPairNeverSent /\ AtLbl(Provider, "recv_ibc_pair") /\ status[Relayer] = "killed") =>
    /\ status[Provider] = "failed"
    /\ err[Provider] = "TimeoutError"
    /\ harness = "failed"
    /\ \A r \in Roles : status[r] # "running"

\* C5 (amended): the provider never gets past its receive of the IbcPair;
\* that receive has no bound of its own, so a provider still blocked in it
\* when the global timeout fires is terminated there by the harness and does
\* not fail with a TimeoutError; the outcome is failure, and no role process
\* and no daemon is left running.
C5_AbortPropagation ==
  IbcPairNeverSent =>
    /\ harness = "failed"
    /\ \A r \in Roles : status[r] \in {"done", "failed", "killed"} /\ ~daemon[r]
    /\ ~Did(Provider, "recv_ibc_pair")
    /\ ~Did(Provider, "cosmovisor_ibc_transfer")
    /\ AtLbl(Provider, "recv_ibc_pair") =>
         /\ err[Provider] # "TimeoutError"
         /\ status[Relayer] = "killed" => status[Provider] = "killed"

C5_Witness ==
  /\ IbcPairNeverSent
  /\ AtLbl(Provider, "recv_ibc_pair")
  /\ status[Provider] = "killed"
  /\ AtLbl(Relayer, "hermes_check_acks")
  /\ status[Relayer] = "killed"


\* the sends of each runner to each role, in order: position and value
SendsTo ==
  [s \in {"current", "legacy"} |-> [r \in Roles |-> [p \in Roles |->
     LET code == Prog(s, r)
         at == SelectSeq([i \in 1..Len(code) |-> i], LAMBDA i : IsSendTo(code[i], p))
     IN  [k \in 1..Len(at) |-> [at |-> at[k], what |-> code[at[k]].what]]]]]

\* the statement of r's runner labelled l
StepOf(s, r, l) == Prog(s, r)[FirstAt[s][r][l]]
Received(r, w) == w \in Range(got[r])
\* the values r has sent to p so far, in order
SentTo(r, p) ==
  LET sends == SendsTo[scenario][r][p]
      n == Cardinality({k \in 1..Len(sends) : sends[k].at < pc[r]})
  IN  [i \in 1..n |-> sends[i].what]

\* the order of the provider's governance statements (legacy scenario)
C6_Order ==
  /\ scenario = "legacy" =>
       /\ Did(Provider, "submit_proposal_consumer_addition") =>
            (Did(Provider, "cosmovisor_start") /\ starts[Provider] = 1)
       /\ Did(Provider, "gov_vote_1_yes") => Did(Provider, "submit_proposal_consumer_addition")
       /\ Did(Provider, "assign_consensus_key") => Did(Provider, "gov_vote_1_yes")
       /\ StepOf("legacy", Provider, "wait_for_height").op = "wait_height"
       /\ StepOf("legacy", Provider, "wait_for_height").arg = 5
       /\ Did(Provider, "wait_for_height") =>
            (Did(Provider, "assign_consensus_key") /\ height[Provider] >= 5)
       /\ (Did(Provider, "query_consumer_genesis") \/ AtLbl(Provider, "query_consumer_genesis")) =>
            (Did(Provider, "wait_for_height") /\ height[Provider] >= 5)
  /\ scenario = "current" =>
       ((Did(Provider, "cosmovisor_add_consumer") \/ AtLbl(Provider, "cosmovisor_add_consumer")) =>
          (Did(Provider, "cosmovisor_start") /\ starts[Provider] = 1))

\* C6 (provider governance ordering): the provider starts its chain, then
\* submits the consumer-addition proposal, then votes yes on proposal 1, then
\* assigns the consensus key, then polls until height 5 has been observed,
\* and only then queries the consumer-genesis; a provider that has failed
\* executes no later statement.
C6_GovernanceOrdering ==
  /\ []C6_Order
  /\ [][status[Provider] = "failed" => (pc'[Provider] = pc[Provider] /\ status'[Provider] = "failed")]_vars

C6_Witness ==
  /\ scenario = "legacy"
  /\ Did(Provider, "query_consumer_genesis")
  /\ height[Provider] = 5

SentMnemonic == Did(Provider, "send_mnemonic")
SentBootstrap == SentTo(Provider, Consumer) # << >>
ExtractedGenesis ==
  IF scenario = "legacy" THEN Did(Provider, "query_consumer_genesis")
  ELSE Did(Provider, "cosmovisor_add_consumer")

\* C7 as stated: the mnemonic is sent after the chain start and the
\* consumer-genesis extraction, and before any bootstrap message.
C7_Original ==
  /\ SentMnemonic => (starts[Provider] >= 1 /\ ExtractedGenesis)
  /\ SentBootstrap => SentMnemonic

\* C7 (amended): in both scenarios the mnemonic is sent before any bootstrap
\* message to the consumer, and bootstrap messages are sent only after the
\* chain start and the consumer-genesis extraction.  In the legacy scenario
\* the mnemonic is sent after the chain start and the extraction; in the
\* current scenario it is sent right after onomyd_setup, before the provider
\* starts its chain.
C7_SecretsForwarding ==
  /\ SentBootstrap => (SentMnemonic /\ starts[Provider] >= 1 /\ ExtractedGenesis)
  /\ SentMnemonic => Did(Provider, "onomyd_setup")
  /\ scenario = "legacy" => (SentMnemonic => (starts[Provider] >= 1 /\ ExtractedGenesis))
  /\ scenario = "current" => (starts[Provider] >= 1 => SentMnemonic)

C7_Witness ==
  /\ scenario = "current"
  /\ Received(Relayer, "mnemonic")
  /\ starts[Provider] = 0
  /\ AtLbl(Provider, "cosmovisor_start")

\* the first n elements of q, or all of q when it has fewer
Take(q, n) == SubSeq(q, 1, IF Len(q) < n THEN Len(q) ELSE n)

FiveItems == << "ccvconsumer_state", "accounts", "bank", "node_key", "priv_validator_key" >>
ThreeItems == << "ccvconsumer_state", "node_key", "priv_validator_key" >>
WaitsForReady == AtLbl(Provider, "recv_ready") \/ Did(Provider, "recv_ready")

\* C8 as stated: the consumer has received the five items and written the
\* genesis and the key files before its first start, and the provider sends
\* exactly these five before it blocks for the readiness signal.
C8_Original ==
  /\ starts[Consumer] >= 1 =>
       /\ \A i \in 1..5 : Received(Consumer, FiveItems[i])
       /\ Did(Consumer, "write_node_key") /\ Did(Consumer, "write_priv_validator_key")
  /\ WaitsForReady => Take(SentTo(Provider, Consumer), 5) = FiveItems

\* C8 (amended): the consumer starts its chain for the first time only after
\* it has received every bootstrap item and written the genesis and both key
\* files, and the provider has sent exactly these items, in this order, when
\* it blocks for the readiness signal.  The items are five in the legacy
\* scenario (consumer-genesis, accounts, bank, node key, validator key) and
\* three in the current one (consumer-genesis, node key, validator key: no
\* accounts and no bank fragment is sent).
C8_ConsumerBootstrap ==
  LET items == IF scenario = "legacy" THEN FiveItems ELSE ThreeItems
      genesis == IF scenario = "legacy" THEN "write_genesis" ELSE "marketd_setup"
  IN  /\ starts[Consumer] >= 1 =>
           /\ Take(got[Consumer], Len(items)) = items
           /\ Did(Consumer, genesis)
           /\ Did(Consumer, "write_node_key") /\ Did(Consumer, "write_priv_validator_key")
      /\ AtLbl(Provider, "recv_ready") => SentTo(Provider, Consumer) = items
      /\ Did(Provider, "recv_ready") => Take(SentTo(Provider, Consumer), Len(items)) = items

C8_Witness ==
  /\ scenario = "current"
  /\ starts[Consumer] = 1
  /\ daemon[Consumer]
  /\ AtLbl(Provider, "recv_ready")
  /\ got[Consumer] = ThreeItems

ConnectionStep == IF scenario = "legacy" THEN "create_connection_pair" ELSE "hermes_setup_pair"

\* C9 (relayer waits for both chains): the relayer is at, or past, its
\* connection creation only after it has received the provider's proceed
\* signal, which the provider sent after receiving the consumer's readiness
\* signal; by then the provider chain and the consumer chain have both been
\* started.
C9_RelayerWaits ==
  (AtLbl(Relayer, ConnectionStep) \/ Did(Relayer, ConnectionStep)) =>
    /\ Did(Relayer, "recv_proceed") /\ Received(Relayer, "proceed")
    /\ Did(Provider, "send_proceed")
    /\ Did(Provider, "recv_ready") /\ Received(Provider, "ready")
    /\ Did(Consumer, "send_ready")
    /\ starts[Provider] >= 1
    /\ starts[Consumer] >= 1

C9_Witness ==
  /\ scenario = "current"
  /\ Did(Relayer, "hermes_setup_pair")
  /\ daemon[Provider]
  /\ daemon[Consumer]

LegacyAcks == {"query_packet_acks_onomy_transfer", "query_packet_acks_market_transfer",
               "query_packet_acks_onomy_provider", "query_packet_acks_market_consumer"}
Report == IF scenario = "legacy" THEN "connected" ELSE "ibc_pair"
\* the relayer's report is in flight to, or has been received by, the provider
Reported ==
  \/ \E i \in DOMAIN chan[<<Relayer, Provider>>] : chan[<<Relayer, Provider>>][i].what = Report
  \/ Received(Provider, Report)

\* C10 (relayer step order): after the proceed signal the relayer creates the
\* connection pair, then the transfer channel pair, then the consumer/provider
\* channel pair, then starts relaying, then makes the four packet-ack queries,
\* and only then reports to the provider; if a step fails nothing is reported.
\* In the current scenario the creations are hermes_setup_pair and the
\* queries are hermes_check_acks.
C10_RelayerOrder ==
  /\ scenario = "legacy" =>
       /\ Did(Relayer, "create_connection_pair") => Did(Relayer, "recv_proceed")
       /\ Did(Relayer, "create_channel_pair_transfer") => Did(Relayer, "create_connection_pair")
       /\ Did(Relayer, "create_channel_pair_ics") => Did(Relayer, "create_channel_pair_transfer")
       /\ starts[Relayer] >= 1 => Did(Relayer, "create_channel_pair_ics")
       /\ \A q \in LegacyAcks : Did(Relayer, q) => starts[Relayer] = 1
       /\ Reported => \A q \in LegacyAcks : Did(Relayer, q)
  /\ scenario = "current" =>
       /\ Did(Relayer, "hermes_setup_pair") => Did(Relayer, "recv_proceed")
       /\ starts[Relayer] >= 1 => Did(Relayer, "hermes_setup_pair")
       /\ Did(Relayer, "hermes_check_acks") => starts[Relayer] >= 1
       /\ Reported => Did(Relayer, "hermes_check_acks")
  /\ (status[Relayer] = "failed" /\ ~Did(Relayer, "send_" \o Report)) => ~Reported

C10_Witness ==
  /\ scenario = "legacy"
  /\ Received(Provider, "connected")
  /\ daemon[Relayer]

\* the provider is at, or past, its cross-chain transfer
TransferIssued ==
  AtLbl(Provider, "cosmovisor_ibc_transfer") \/ Did(Provider, "cosmovisor_ibc_transfer")

\* C11 (provider transfer gating, current scenario): the provider issues its
\* cross-chain transfer only after it has received the IbcPair from the
\* relayer, hence only after the relayer has set up the pair, started
\* relaying and checked the acknowledgements; and it forwards the IbcPair to
\* the consumer only after the transfer and a wait of 4 blocks.
C11_TransferGating ==
  scenario = "current" =>
    /\ TransferIssued =>
         /\ Did(Provider, "recv_ibc_pair") /\ Received(Provider, "ibc_pair")
         /\ Did(Relayer, "hermes_setup_pair")
         /\ starts[Relayer] >= 1
         /\ Did(Relayer, "hermes_check_acks")
         /\ Did(Relayer, "send_ibc_pair")
    /\ StepOf("current", Provider, "wait_for_num_blocks").op = "wait_blocks"
    /\ StepOf("current", Provider, "wait_for_num_blocks").arg = 4
    /\ Did(Provider, "wait_for_num_blocks") =>
         (Did(Provider, "cosmovisor_ibc_transfer") /\ height[Provider] >= 4)
    /\ "ibc_pair" \in Range(SentTo(Provider, Consumer)) =>
         (Did(Provider, "cosmovisor_ibc_transfer") /\ Did(Provider, "wait_for_num_blocks"))

C11_Witness ==
  /\ scenario = "current"
  /\ Received(Consumer, "ibc_pair")
  /\ Did(Provider, "wait_for_num_blocks")
  /\ daemon[Relayer]

\* the consumer is at, or past, the stop that begins its change of gas price
RegasBegun == AtLbl(Consumer, "terminate_bootstrap") \/ Did(Consumer, "terminate_bootstrap")
\* the consumer has exited at one of its two denomination checks
DenomCheckFailed ==
  /\ status[Consumer] = "failed"
  /\ AtLbl(Consumer, "assert_ibc_nom") \/ AtLbl(Consumer, "assert_contains_ibc_nom")

\* C12 (denomination validation gate, current scenario): the consumer goes on
\* to stop its chain, change the minimum gas price and restart only after
\* receiving the IbcPair and only if the derived denomination equalled
\* ONOMY_IBC_NOM and was a key of its balances; if either check fails the
\* consumer panics having stopped and restarted nothing, changed no gas
\* price and sent no denomination name.
C12_DenomGate ==
  scenario = "current" =>
    /\ Did(Consumer, "assert_ibc_nom") =>
         (Received(Consumer, "ibc_pair") /\ Did(Consumer, "get_ibc_denom"))
    /\ AtLbl(Consumer, "cosmovisor_get_balances") => seen[Consumer] = "ONOMY_IBC_NOM"
    /\ RegasBegun =>
         /\ Did(Consumer, "assert_ibc_nom")
         /\ Did(Consumer, "assert_contains_ibc_nom")
    /\ AtLbl(Consumer, "terminate_bootstrap") => seen[Consumer] # "absent"
    /\ DenomCheckFailed =>
         /\ err[Consumer] = "Panic"
         /\ seen[Consumer] \in {"other_denom", "absent"}
         /\ stops[Consumer] = 0
         /\ starts[Consumer] = 1
         /\ ~Did(Consumer, "set_minimum_gas_price_ibc_nom")
         /\ "ibc_nom" \notin Range(SentTo(Consumer, Provider))
         /\ chan[<<Consumer, Provider>>] = << >>

C12_Witness ==
  /\ DenomCheckFailed
  /\ AtLbl(Consumer, "assert_contains_ibc_nom")
  /\ seen[Consumer] = "absent"
  /\ AtLbl(Provider, "recv_ibc_nom")

\* the consumer has passed its balance verification and has made no later
\* query: seen[Consumer] is the balances entry the verification read
BalanceVerified ==
  /\ scenario = "current"
  /\ Did(Consumer, "assert_contains_ibc_nom")
  /\ ~Did(Consumer, "cosmovisor_get_balances_dst")

\* C13 as stated: the consumer continues past its balance verification only
\* if its balance of the bridged denomination equals the amount sent.
C13_Original == BalanceVerified => seen[Consumer] = "amount_sent"

\* C13 (amended): the consumer queries its balances only after the provider
\* has made its transfer and waited 4 blocks, and it continues past its
\* balance verification only if the bridged denomination is a key of its
\* balances; the amount of that balance is not compared with the amount sent.
C13_TransferVerified ==
  /\ (scenario = "current" /\ Did(Consumer, "cosmovisor_get_balances")) =>
       /\ Did(Provider, "cosmovisor_ibc_transfer")
       /\ Did(Provider, "wait_for_num_blocks")
  /\ StepOf("current", Consumer, "assert_contains_ibc_nom").what = "contains_key"
  /\ BalanceVerified => seen[Consumer] \in {"amount_sent", "amount_other"}

C13_Witness ==
  /\ BalanceVerified
  /\ seen[Consumer] = "amount_other"
  /\ Did(Consumer, "cosmovisor_start")

Sent(r, p, w) == w \in Range(SentTo(r, p))

\* C14 as stated: the message carrying the denomination name is sent by the
\* provider to the consumer before the termination exchange.
C14_Original ==
  (scenario = "current" /\ Sent(Provider, Relayer, "terminate")) =>
    Sent(Provider, Consumer, "ibc_nom")

\* C14 (amended): the denomination name travels from the consumer to the
\* provider and from the provider to the relayer.  The provider forwards it
\* to the relayer only after its transfer and block wait and after receiving
\* it from the consumer, and before the termination exchange; the provider
\* never sends it to the consumer.
C14_GasDenomForwarding ==
  scenario = "current" =>
    /\ ~Sent(Provider, Consumer, "ibc_nom")
    /\ Received(Provider, "ibc_nom") => Sent(Consumer, Provider, "ibc_nom")
    /\ Sent(Provider, Relayer, "ibc_nom") =>
         /\ Received(Provider, "ibc_nom")
         /\ Did(Provider, "cosmovisor_ibc_transfer")
         /\ Did(Provider, "wait_for_num_blocks")
    /\ Received(Relayer, "ibc_nom") => Sent(Provider, Relayer, "ibc_nom")
    /\ Sent(Provider, Relayer, "terminate") =>
         (Sent(Provider, Relayer, "ibc_nom") /\ Received(Relayer, "ibc_nom"))

C14_Witness ==
  /\ scenario = "current"
  /\ Received(Relayer, "ibc_nom")
  /\ AtLbl(Provider, "recv_restarted")
  /\ AtLbl(Consumer, "recv_restarted")

\* the consumer is at, or past, its local transfer
ReverseTrafficBegun ==
  AtLbl(Consumer, "cosmovisor_bank_send") \/ Did(Consumer, "cosmovisor_bank_send")

\* C15 (relayer reconfiguration before reverse traffic, current scenario): on
\* receiving the denomination name the relayer stops relaying, sets the gas
\* price denomination, restarts relaying and only then replies; the consumer
\* makes its local transfer and then its reverse cross-chain transfer only
\* after it has restarted its own chain with the new minimum gas price and
\* after the relayer's reply has reached it through the provider, hence only
\* after the relayer was restarted.
C15_RelayerReconfigured ==
  scenario = "current" =>
    /\ Did(Relayer, "terminate_bootstrap") => Received(Relayer, "ibc_nom")
    /\ Did(Relayer, "hermes_set_gas_price_denom") =>
         (Did(Relayer, "terminate_bootstrap") /\ stops[Relayer] >= 1)
    /\ Did(Relayer, "hermes_start") => Did(Relayer, "hermes_set_gas_price_denom")
    /\ Sent(Relayer, Provider, "restarted") =>
         (Did(Relayer, "hermes_start") /\ starts[Relayer] = 2)
    /\ Sent(Provider, Consumer, "restarted") => Received(Provider, "restarted")
    /\ ReverseTrafficBegun =>
         /\ Did(Consumer, "terminate_bootstrap")
         /\ Did(Consumer, "set_minimum_gas_price_ibc_nom")
         /\ Did(Consumer, "cosmovisor_start") /\ starts[Consumer] = 2
         /\ Received(Consumer, "restarted")
         /\ Did(Relayer, "hermes_start") /\ starts[Relayer] = 2
    /\ Did(Consumer, "cosmovisor_ibc_transfer") => Did(Consumer, "assert_dst_5000")

C15_Witness ==
  /\ scenario = "current"
  /\ Did(Consumer, "cosmovisor_ibc_transfer")
  /\ daemon[Consumer]
  /\ daemon[Relayer]
  /\ AtLbl(Relayer, "recv_terminate")

\* the provider has sent a termination signal
TerminationSent ==
  Sent(Provider, Relayer, "terminate") \/ Sent(Provider, Consumer, "terminate")

\* C16 (round-trip verification, current scenario): the consumer sends the
\* round-trip signal only after its reverse transfer and a wait of 4 blocks;
\* the provider queries the balance of the test address only after receiving
\* that signal, sends the termination signals only if the anom balance read
\* equals 5000, and otherwise panics having sent no termination signal.
C16_RoundTrip ==
  scenario = "current" =>
    /\ StepOf("current", Consumer, "wait_for_num_blocks").arg = 4
    /\ Did(Consumer, "wait_for_num_blocks") => Did(Consumer, "cosmovisor_ibc_transfer")
    /\ Sent(Consumer, Provider, "round_trip") => Did(Consumer, "wait_for_num_blocks")
    /\ (AtLbl(Provider, "cosmovisor_get_balances") \/ Did(Provider, "cosmovisor_get_balances")) =>
         Received(Provider, "round_trip")
    /\ TerminationSent => (Did(Provider, "assert_anom_5000") /\ seen[Provider] = "5000")
    /\ (status[Provider] = "failed" /\ AtLbl(Provider, "assert_anom_5000")) =>
         /\ err[Provider] = "Panic"
         /\ seen[Provider] # "5000"
         /\ ~TerminationSent
         /\ chan[<<Provider, Relayer>>] = << >> /\ chan[<<Provider, Consumer>>] = << >>

C16_Witness ==
  /\ scenario = "current"
  /\ status[Provider] = "failed"
  /\ AtLbl(Provider, "assert_anom_5000")
  /\ seen[Provider] = "amount_other"
  /\ AtLbl(Consumer, "recv_terminate")
  /\ AtLbl(Relayer, "recv_terminate")

Chains == {Provider, Consumer}
\* r is at, or past, the export of its chain state
ExportBegun(r) == AtLbl(r, "export") \/ Did(r, "export")
\* r has made its part of the termination exchange
TerminationExchanged(r) ==
  IF r = Provider
  THEN Sent(Provider, Relayer, "terminate") /\ Sent(Provider, Consumer, "terminate")
  ELSE Received(r, "terminate")

\* C17 as stated: the export is taken first, with the chain daemon still
\* running, and the chain is stopped after it.
C17_Original ==
  scenario = "current" =>
    \A r \in Chains :
      /\ (AtLbl(r, "export") /\ status[r] = "running") => daemon[r]
      /\ Did(r, "terminate") => Did(r, "export")

\* C17 (amended): after the termination exchange the provider, and likewise
\* the consumer, first stops its local chain and then exports the chain
\* state and writes it to the logs; the chain daemon is no longer running
\* when the export is taken, and the role is done only after the export was
\* written.
C17_StopThenExport ==
  scenario = "current" =>
    \A r \in Chains :
      /\ Did(r, "terminate") => TerminationExchanged(r)
      /\ ExportBegun(r) => (Did(r, "terminate") /\ ~daemon[r] /\ stops[r] >= 1)
      /\ Did(r, "write_export") => Did(r, "export")
      /\ status[r] = "done" => Did(r, "write_export")

C17_Witness ==
  /\ scenario = "current"
  /\ AtLbl(Provider, "export") /\ status[Provider] = "running" /\ ~daemon[Provider]
  /\ AtLbl(Consumer, "write_export") /\ status[Consumer] = "running" /\ ~daemon[Consumer]

\* r takes a step that is an attempt of its wait_for_height
Polls(r) ==
  /\ At(r, {"wait_height"})
  /\ tries'[r] # tries[r] \/ pc'[r] # pc[r]

\* what an attempt of the provider's wait_for_height(STD_TRIES, STD_DELAY, 5)
\* does with the height it observes
PollStep(r) ==
  Polls(r) =>
    /\ height'[r] >= height[r]
    /\ height'[r] >= 5 =>
         (pc'[r] = pc[r] + 1 /\ status'[r] = "running")
    /\ (height'[r] < 5 /\ tries[r] + 1 < StdTries) =>
         (pc'[r] = pc[r] /\ status'[r] = "running" /\ tries'[r] = tries[r] + 1)
    /\ (height'[r] < 5 /\ tries[r] + 1 >= StdTries) =>
         (pc'[r] = pc[r] /\ status'[r] = "failed" /\ err'[r] = "TimeoutError"
          /\ tries'[r] = StdTries)

\* the wait has returned, is within its attempts, or has used all of them
PollCount(r) ==
  /\ (At(r, {"wait_height"}) /\ Target(r) = {5}) => tries[r] < StdTries
  /\ Did(r, "wait_for_height") => height[r] >= 5
  /\ (status[r] = "failed" /\ err[r] = "TimeoutError" /\ AtLbl(r, "wait_for_height")) =>
       (tries[r] = StdTries /\ height[r] < 5 /\ ~Did(r, "query_consumer_genesis"))

\* C18 (bounded wait semantics): every attempt of wait_for_height reads the
\* height anew, the heights read never decrease, the wait returns at the
\* first attempt that reads a height of at least the target 5 and makes no
\* attempt after it, and it fails with a TimeoutError at attempt number
\* STD_TRIES when no attempt read such a height; the provider then exits and
\* executes nothing more.
C18_BoundedWait ==
  /\ [](scenario = "legacy" => PollCount(Provider))
  /\ [][scenario = "legacy" => PollStep(Provider)]_vars
  /\ [][(status[Provider] = "failed" /\ err[Provider] = "TimeoutError") =>
         (pc'[Provider] = pc[Provider] /\ tries'[Provider] = tries[Provider]
          /\ status'[Provider] \in {"failed"})]_vars

C18_Witness ==
  /\ scenario = "legacy"
  /\ status[Provider] = "failed"
  /\ err[Provider] = "TimeoutError"
  /\ AtLbl(Provider, "wait_for_height")
  /\ tries[Provider] = StdTries
  /\ height[Provider] = 4

\* the values of the subtrees of a genesis text
Document(file) == [x \in Subtrees |-> from_str(file[x])]
\* what the substitution makes of an object
Replaced(o) == from_str(Replace(to_string(o)))
\* an object with a key "stake" and a key "anom": the substitution writes
\* two members with the key "anom"
Clash(o) == {"stake", "anom"} \subseteq DOMAIN o

Retrying == {"connect", "wait_height", "wait_blocks"}

\* C20 as stated: only the bounded polling wait retries; a channel setup is
\* attempted once, so a role running at a connect has no failed attempt
\* behind it.
C20_Original ==
  \A r \in Roles : (At(r, {"connect"}) /\ status[r] = "running") => tries[r] = 0

\* a role has an error exactly when it has failed, and failed attempts are
\* counted only at a connect or at a polling wait, fewer than STD_TRIES
C20_SingleShot ==
  \A r \in Roles :
    /\ err[r] # "none" <=> status[r] = "failed"
    /\ (status[r] = "running" /\ tries[r] > 0) => (At(r, Retrying) /\ tries[r] < StdTries)

\* a role that has failed stays failed, executes no statement, starts and
\* stops nothing and sends nothing
C20_Fatal ==
  \A r \in Roles :
    status[r] = "failed" =>
      /\ status'[r] = "failed" /\ err'[r] = err[r]
      /\ pc'[r] = pc[r]
      /\ starts'[r] = starts[r] /\ stops'[r] = stops[r] /\ ~daemon'[r]
      /\ \A l \in Links : l[1] = r => Len(chan'[l]) <= Len(chan[l])

\* C20 (amended): the failure of a driver command, a query, a listen, a send
\* or a receive makes the role fail at once, with that operation attempted
\* once; a failed role executes nothing more and sends nothing more.  Two
\* operations retry internally, up to STD_TRIES attempts: the bounded polling
\* wait and the connect that sets up a channel.
C20_FailFast == []C20_SingleShot /\ [][C20_Fatal]_vars

C20_Witness ==
  /\ status[Consumer] = "failed"
  /\ err[Consumer] = "Error"
  /\ AtLbl(Consumer, "daemon_home")
  /\ AtLbl(Provider, "connect_consumer")
  /\ status[Provider] = "running"
  /\ tries[Provider] = 1

\* the daemons each role starts in the current scenario
HappyStarts == [r \in Roles |-> IF r = Provider THEN 1 ELSE 2]
\* the daemons of r that r has started and not stopped itself
Unstopped(r) == starts[r] - stops[r]

\* C21 (subprocess hygiene): a role that exits successfully has itself
\* stopped every chain or relay process it started: the provider one start
\* and one stop, the consumer and the relayer two starts and two stops each
\* in the current scenario.  In every reachable state the starts and stops
\* of a role alternate: a role starts a daemon only when every one it
\* started before has been stopped, and stops one only when one is up, so
\* no role ever has two instances of its daemon.
C21_SubprocessHygiene ==
  \A r \in Roles :
    /\ Unstopped(r) \in {0, 1}
    /\ daemon[r] => Unstopped(r) = 1
    /\ At(r, {"start"}) => (Unstopped(r) = 0 /\ ~daemon[r])
    /\ At(r, {"stop"}) => (Unstopped(r) = 1 /\ daemon[r])
    /\ status[r] = "done" =>
         /\ Unstopped(r) = 0
         /\ scenario = "current" => (starts[r] = HappyStarts[r] /\ stops[r] = HappyStarts[r])
         /\ scenario = "legacy" => (starts[r] = 1 /\ stops[r] = 1)

C21_Witness ==
  /\ scenario = "current"
  /\ AllDone
  /\ harness = "passed"
  /\ starts = HappyStarts
  /\ stops = HappyStarts

Scenarios == {"current", "legacy"}
\* the statements of r's runner that use a messenger
Messaging(s, r) ==
  SelectSeq(Prog(s, r), LAMBDA st : st.op \in {"listen", "connect", "send", "recv"})
\* the roles r's runner opens a channel with or exchanges messages with
Peers(s, r) == {st.peer : st \in Range(Messaging(s, r))}
\* the statements of r's runner that open a channel to p, of kind op
Opens(s, r, op, p) == SelectSeq(Prog(s, r), LAMBDA st : st.op = op /\ st.peer = p)
\* the provider's connect to listener r
ConnectTo(r) ==
  IF r = Relayer THEN "connect_hermes"
  ELSE IF scenario = "legacy" THEN "connect_marketd" ELSE "connect_consumer"

\* the channels the runners open and use
C22_Channels ==
  /\ \A l \in Links : Provider \in {l[1], l[2]}
  /\ \A s \in Scenarios :
       /\ Peers(s, Provider) = {Relayer, Consumer}
       /\ \A r \in Listeners :
            /\ Peers(s, r) = {Provider}
            /\ Len(Opens(s, r, "listen", Provider)) = 1
            /\ Len(Opens(s, Provider, "connect", r)) = 1
            /\ \A p \in Roles : Opens(s, r, "connect", p) = << >>
       /\ \A p \in Roles : Opens(s, Provider, "listen", p) = << >>
       /\ \A r \in Roles : \A st \in Range(Messaging(s, r)) :
            st.op \in {"send", "recv"} => (<<r, st.peer>> \in Links /\ <<st.peer, r>> \in Links)

\* C22 (channel topology): there are exactly two channels, provider-relayer
\* and provider-consumer; each is opened once, by the one listen of the
\* listener and the one connect of the provider, and once open it stays
\* open; the consumer and the relayer have no channel between them and
\* address every message to the provider, so the readiness signal, the
\* IbcPair, the denomination name and the restart acknowledgement reach the
\* other side only after the provider has received them and sent them on.
C22_ChannelTopology ==
  /\ C22_Channels
  /\ \A r \in Listeners :
       /\ link[r] = "open" <=> Did(Provider, ConnectTo(r))
       /\ Did(r, "listen_single_connect") => link[r] = "open"
       /\ (chan[<<r, Provider>>] # << >> \/ chan[<<Provider, r>>] # << >> \/ got[r] # << >>) =>
            link[r] = "open"
  /\ Received(Relayer, "proceed") =>
       (Received(Provider, "ready") /\ Sent(Consumer, Provider, "ready"))
  /\ scenario = "current" =>
       /\ Received(Consumer, "ibc_pair") =>
            (Received(Provider, "ibc_pair") /\ Sent(Relayer, Provider, "ibc_pair"))
       /\ Received(Relayer, "ibc_nom") =>
            (Received(Provider, "ibc_nom") /\ Sent(Consumer, Provider, "ibc_nom"))
       /\ Received(Consumer, "restarted") =>
            (Received(Provider, "restarted") /\ Sent(Relayer, Provider, "restarted"))

C22_Witness ==
  /\ scenario = "current"
  /\ \A r \in Listeners : link[r] = "open"
  /\ Received(Consumer, "restarted")
  /\ Received(Relayer, "ibc_nom")
  /\ got[Provider] = << "ready", "ibc_pair", "ibc_nom", "restarted" >>

\* r has bound its listener: it is at, or past, its listen_single_connect
Listening(r) == AtLbl(r, "listen_single_connect") \/ Did(r, "listen_single_connect")
\* the provider has exited at one of its two connects
ConnectFailed ==
  status[Provider] = "failed" /\ ~Returned(Provider) /\ Cur(Provider).op = "connect"
\* the provider has done something after its connects
ProviderActed ==
  \/ Did(Provider, "onomyd_setup")
  \/ starts[Provider] > 0
  \/ SentTo(Provider, Relayer) # << >>
  \/ SentTo(Provider, Consumer) # << >>

\* every connect of the provider is given STD_TRIES attempts
C23_Attempts ==
  \A s \in Scenarios : \A st \in Range(Prog(s, Provider)) :
    st.op = "connect" => st.arg = StdTries

\* C23 (channel setup): the relayer and the consumer each listen once and
\* accept one connection; the provider connects to the relayer first and to
\* the consumer second, each connect given STD_TRIES attempts.  A connect
\* succeeds only on a listener that has bound and is waiting, and an attempt
\* that finds the listener waiting establishes the channel rather than being
\* retried or failing; a provider still connecting has made fewer than
\* STD_TRIES failed attempts; and a provider whose connect has failed has
\* run no driver command, started nothing and sent no message.
C23_ListenBeforeConnect ==
  /\ C23_Attempts
  /\ \A r \in Listeners :
       /\ link[r] # "closed" => Listening(r)
       /\ Did(Provider, ConnectTo(r)) => (Listening(r) /\ link[r] = "open")
  /\ Did(Provider, ConnectTo(Consumer)) => Did(Provider, ConnectTo(Relayer))
  /\ ProviderActed => \A r \in Listeners : Did(Provider, ConnectTo(r))
  /\ At(Provider, {"connect"}) =>
       /\ tries[Provider] < StdTries
       /\ link[Cur(Provider).peer] = "listening" =>
            /\ ENABLED ConnectOk(Provider)
            /\ ~ENABLED ConnectRetry(Provider)
            /\ ~ENABLED ConnectFail(Provider)
  /\ ConnectFailed =>
       /\ link[Cur(Provider).peer] # "open"
       /\ ~ProviderActed
       /\ \A l \in Links : l[1] = Provider => chan[l] = << >>

C23_Witness ==
  /\ ConnectFailed
  /\ AtLbl(Provider, ConnectTo(Consumer))
  /\ link[Relayer] = "open"
  /\ Did(Relayer, "listen_single_connect")
  /\ status[Consumer] = "running"

\* nothing of role q's runner has run
Untouched(q) ==
  /\ status[q] = "idle" /\ pc[q] = 1 /\ err[q] = "none"
  /\ got[q] = << >> /\ starts[q] = 0 /\ stops[q] = 0 /\ ~daemon[q]
  /\ tries[q] = 0 /\ wake[q] = {} /\ height[q] = 0
  /\ \A l \in Links : l[1] = q => chan[l] = << >>
\* the launcher has done nothing
LauncherIdle == harness \in {"main", "role", "failed"} /\ now = 0

\* the names main recognizes and the names container_runner hands out
C24_Names ==
  \A s \in Scenarios :
    /\ {Arms(s)[e] : e \in DOMAIN Arms(s)} = Roles
    /\ \A e, f \in DOMAIN Arms(s) : Arms(s)[e] = Arms(s)[f] => e = f
    /\ \A r \in Roles : EntryArg(s, r) \in DOMAIN Arms(s) /\ Arms(s)[EntryArg(s, r)] = r
    /\ Prog("current", Arms("current")["onomyd"]) = onomyd_runner
    /\ Prog("current", Arms("current")["consumer"]) = consumer
    /\ Prog("current", Arms("current")["hermes"]) = hermes_runner
    /\ Prog("legacy", Arms("legacy")["onomyd"]) = legacy_onomyd_runner
    /\ Prog("legacy", Arms("legacy")["marketd"]) = marketd_runner
    /\ Prog("legacy", Arms("legacy")["hermes"]) = legacy_hermes_runner

\* C24 (role selection): a process started with the entry name of a role runs
\* the runner of that role and nothing else: no other role's runner takes a
\* step and the launcher does nothing.  A process started without an entry
\* name is the launcher: no runner takes a step before run_all, which starts
\* the three containers, each with the entry name of its role.  A process
\* started with a name that is no arm of the match returns an error, and
\* neither a runner nor the launcher takes a step.
C24_RoleSelection ==
  /\ C24_Names
  /\ harness = "main" => \A q \in Roles : Untouched(q)
  /\ entry = {} =>
       /\ harness \in {"main", "build", "run", "wait", "passed"}
       /\ harnessErr = "none"
       /\ harness \in {"main", "build", "run"} => \A q \in Roles : Untouched(q)
       /\ harness \in {"wait", "passed"} => \A q \in Roles : status[q] # "idle"
  /\ \A e \in entry :
       IF e \in DOMAIN Arms(scenario)
       THEN /\ harness \in {"main", "role"}
            /\ harnessErr = "none"
            /\ LauncherIdle
            /\ harness = "role" => status[Arms(scenario)[e]] # "idle"
            /\ \A q \in Roles \ {Arms(scenario)[e]} : Untouched(q)
            /\ \A q \in Listeners \ {Arms(scenario)[e]} : link[q] = "closed"
       ELSE /\ harness \in {"main", "failed"}
            /\ harness = "failed" <=> harnessErr = "Error"
            /\ LauncherIdle
            /\ \A q \in Roles : Untouched(q)
            /\ \A q \in Listeners : link[q] = "closed"

C24_Witness ==
  /\ scenario = "legacy"
  /\ entry = {"marketd"}
  /\ harness = "role"
  /\ status[Consumer] = "running"
  /\ AtLbl(Consumer, "listen_single_connect")
  /\ link[Consumer] = "listening"

\* r is about to execute its cross-chain transfer
Issuing(r) == status[r] = "running" /\ AtLbl(r, "cosmovisor_ibc_transfer")
\* r's daemon was started, has not been stopped and is up
Up(r) == daemon[r] /\ Unstopped(r) = 1 /\ status[r] = "running"

\* C25 (no cross-chain transfer while infrastructure is down, current
\* scenario): whenever the provider is about to issue its transfer, or the
\* consumer its reverse transfer, the relaying process is running (started
\* and not stopped) and the provider chain daemon and the consumer chain
\* daemon are both running; the provider's transfer is issued under the
\* first relayer and consumer daemons, the consumer's under the restarted
\* ones.
C25_InfrastructureUp ==
  scenario = "current" =>
    /\ \A r \in Chains : Issuing(r) => \A q \in Roles : Up(q)
    /\ Issuing(Provider) => (starts[Relayer] = 1 /\ starts[Consumer] = 1)
    /\ Issuing(Consumer) => (starts[Relayer] = 2 /\ starts[Consumer] = 2)

C25_Witness ==
  /\ scenario = "current"
  /\ Issuing(Consumer)
  /\ Did(Provider, "cosmovisor_ibc_transfer")
  /\ \A q \in Roles : Up(q)
  /\ starts[Relayer] = 2

\* r has started a daemon and has itself stopped every one it started
Stopped(r) == starts[r] >= 1 /\ Unstopped(r) = 0
\* r has stopped its first daemon and not yet started the second
Reconfiguring(r) == Stopped(r) /\ starts[r] = 1
\* the relayer is at, or past, the stop that begins its reconfiguration
RelayerStopBegun ==
  AtLbl(Relayer, "terminate_bootstrap") \/ Did(Relayer, "terminate_bootstrap")

\* C26 (disjoint downtimes, current scenario): the relayer stops relaying
\* for its reconfiguration only after the consumer has restarted its chain
\* with the new minimum gas price.  While the consumer has its chain stopped
\* for the restart the relayer has made no stop, and while the consumer is
\* working on the restart the relaying process is running; while the
\* relayer has the relaying process stopped the consumer has restarted, and
\* its chain is running.  The consumer and the relayer have both stopped
\* their daemons only after the termination exchange.
C26_DisjointDowntimes ==
  scenario = "current" =>
    /\ RelayerStopBegun =>
         /\ Received(Relayer, "ibc_nom")
         /\ Did(Consumer, "set_minimum_gas_price_ibc_nom")
         /\ Did(Consumer, "cosmovisor_start") /\ starts[Consumer] = 2
    /\ Reconfiguring(Consumer) =>
         /\ starts[Relayer] = 1 /\ stops[Relayer] = 0
         /\ status[Consumer] = "running" => Up(Relayer)
    /\ Reconfiguring(Relayer) =>
         /\ starts[Consumer] = 2 /\ stops[Consumer] = 1
         /\ status[Relayer] = "running" => Up(Consumer)
    /\ (Stopped(Consumer) /\ Stopped(Relayer)) =>
         /\ Received(Consumer, "terminate") /\ Received(Relayer, "terminate")
         /\ starts[Consumer] = 2 /\ starts[Relayer] = 2

C26_Witness ==
  /\ scenario = "current"
  /\ Reconfiguring(Relayer)
  /\ status[Relayer] = "running"
  /\ AtLbl(Relayer, "hermes_set_gas_price_denom")
  /\ ~daemon[Relayer]
  /\ Up(Consumer)

\* the positions in each runner of the current scenario of its receives
\* from each role
RecvsFrom ==
  [b \in Roles |-> [a \in Roles |->
     {i \in 1..Len(Prog("current", b)) : IsRecvFrom(Prog("current", b)[i], a)}]]

\* the receives from a that b's runner has still to execute
PendingRecvs(b, a) ==
  Cardinality({i \in RecvsFrom[b][a] : i >= pc[b]})

\* each runner sends a peer as many messages as the peer's runner receives
C27_Counts ==
  \A l \in Links :
    Len(SendTypes("current", l[1], l[2])) = Len(RecvTypes("current", l[2], l[1]))

\* C27 (channels drained at completion, current scenario): when all three
\* roles have exited successfully every queue of both channels is empty; a
\* role that has exited successfully has left no message addressed to it
\* unread, has executed every receive of its runner, and has sent to each
\* peer exactly as many messages as that peer's runner has receives for, so
\* every message still queued has a receive of the peer ahead of it.
C27_ChannelsDrained ==
  scenario = "current" =>
    /\ AllDone => \A l \in Links : chan[l] = << >>
    /\ C27_Counts
    /\ \A l \in Links :
         /\ Len(chan[l]) <= PendingRecvs(l[2], l[1])
         /\ status[l[2]] = "done" => (chan[l] = << >> /\ PendingRecvs(l[2], l[1]) = 0)
         /\ status[l[1]] = "done" =>
              Len(SentTo(l[1], l[2])) = Len(RecvTypes("current", l[2], l[1]))

C27_Witness ==
  /\ scenario = "current"
  /\ AllDone
  /\ harness = "wait"
  /\ got[Relayer] = << "mnemonic", "proceed", "ibc_nom", "terminate" >>
  /\ \A l \in Links : chan[l] = << >>

\* the positions in r's legacy runner of the statements of kind op
Positions(r, ops) ==
  {i \in 1..Len(Prog("legacy", r)) : Prog("legacy", r)[i].op \in ops}
\* the largest element of a non-empty set of numbers
Last(S) == CHOOSE i \in S : \A j \in S : j <= i

\* the end of each legacy runner: no termination message; after the last
\* send or receive a sleep of TIMEOUT, then the one stop, then the return
C28_Runners ==
  \A r \in Roles :
    LET code == Prog("legacy", r)
    IN  /\ \A i \in 1..Len(code) : code[i].what # "terminate"
        /\ Positions(r, {"stop"}) = {Len(code)}
        /\ code[Len(code) - 1] = Sleep("sleep_TIMEOUT", TimeoutTicks)
        /\ Last(Positions(r, {"send", "recv"})) < Len(code) - 1

\* C28 (the legacy scenario cannot complete before the timeout): the legacy
\* runners have no termination exchange; each one, after its last message,
\* sleeps for TIMEOUT and then makes its only stop and returns, and the
\* harness waits with the same TIMEOUT from the launch.  So in every
\* reachable state of the legacy scenario a role has stopped its daemon or
\* has exited successfully only when the time since the launch has reached
\* TIMEOUT; until then a running role keeps the daemon it started up, and
\* the harness has not passed.
C28_NoEarlyCompletion ==
  /\ C28_Runners
  /\ scenario = "legacy" =>
       /\ \A r \in Roles :
            /\ (stops[r] > 0 \/ status[r] = "done") =>
                 (now >= TimeoutTicks /\ Did(r, "sleep_TIMEOUT"))
            /\ AtLbl(r, "sleep_TIMEOUT") => \A d \in wake[r] : d >= TimeoutTicks
            /\ (status[r] = "running" /\ starts[r] = 1 /\ now < TimeoutTicks) => daemon[r]
       /\ harness = "passed" => now >= TimeoutTicks

C28_Witness ==
  /\ scenario = "legacy"
  /\ status[Consumer] = "done"
  /\ stops[Consumer] = 1
  /\ status[Provider] = "killed"
  /\ AtLbl(Provider, "sleep_TIMEOUT")
  /\ harnessErr = "TimeoutError"

=============================================================================
